---- MODULE Spec2Model ----
(***************************************************************************)
(* Model of the standalone Bing scraper src/bing_search.py: the request    *)
(* builder `request`, the response parser `response` and the orchestrator  *)
(* `perform_search`, which rewrites the process-wide `traits` object before *)
(* it calls `request`; and of the Bing engines of two other directories,    *)
(* src/simplified_engines/bing.py and src/manus_work/engines/bing.py, set   *)
(* beside it on the same calls and pages.                                   *)
(*                                                                          *)
(* A Python str is a sequence of Unicode code points, a Python bytes a      *)
(* sequence of numbers 0..255.  A string literal of the source is written   *)
(* as its code points, with the text in a comment.                          *)
(***************************************************************************)
EXTENDS Integers, Sequences, FiniteSets, TLC

(***************************************************************************)
(* Python str helpers                                                       *)
(***************************************************************************)

\* str.startswith(p)
StartsWith(s, p) == Len(p) <= Len(s) /\ SubSeq(s, 1, Len(p)) = p

\* s.find(sub) + 1: position of the first occurrence of sub in s, 0 when absent
Find(s, sub) ==
    LET at(i) == SubSeq(s, i, i + Len(sub) - 1) = sub
        hits  == {i \in 1..(Len(s) - Len(sub) + 1) : at(i)}
    IN  IF hits = {} THEN 0 ELSE CHOOSE i \in hits : \A j \in hits : i <= j

\* s.rfind(sub) + 1: position of the last occurrence of sub in s, 0 when absent
RFind(s, sub) ==
    LET at(i) == SubSeq(s, i, i + Len(sub) - 1) = sub
        hits  == {i \in 1..(Len(s) - Len(sub) + 1) : at(i)}
    IN  IF hits = {} THEN 0 ELSE CHOOSE i \in hits : \A j \in hits : i >= j

\* sub in s
Contains(s, sub) == Find(s, sub) # 0

\* s[i:] with a 0-based Python index i
DropFirst(s, i) == SubSeq(s, i + 1, Len(s))

\* s.split(sep) for a one-character separator
RECURSIVE Split(_, _)
Split(s, sep) ==
    LET i == Find(s, <<sep>>)
    IN  IF i = 0 THEN <<s>>
        ELSE <<SubSeq(s, 1, i - 1)>> \o Split(DropFirst(s, i), sep)

\* s.split(sep, 1) for a one-character separator
Split1(s, sep) ==
    LET i == Find(s, <<sep>>)
    IN  IF i = 0 THEN <<s>> ELSE <<SubSeq(s, 1, i - 1), DropFirst(s, i)>>

\* s.replace(old, new) for one-character old and new
Replace(s, old, new) == [i \in 1..Len(s) |-> IF s[i] = old THEN new ELSE s[i]]

RECURSIVE Concat(_)
Concat(ss) == IF ss = <<>> THEN <<>> ELSE Head(ss) \o Concat(Tail(ss))

\* sep.join(ss)
RECURSIVE Join(_, _)
Join(ss, sep) ==
    IF ss = <<>> THEN <<>>
    ELSE IF Len(ss) = 1 THEN ss[1]
    ELSE ss[1] \o sep \o Join(Tail(ss), sep)

IsDigit(c) == c \in 48..57                      \* '0'..'9'
IsSpace(c) == c \in {32, 9, 10, 13, 11, 12}     \* ASCII whitespace

\* re.sub(r'[^0-9]', '', s)
DigitsOf(s) == SelectSeq(s, IsDigit)

\* str.strip() (ASCII whitespace)
RECURSIVE LStrip(_)
LStrip(s) == IF s # <<>> /\ IsSpace(Head(s)) THEN LStrip(Tail(s)) ELSE s
RECURSIVE RStrip(_)
RStrip(s) ==
    IF s # <<>> /\ IsSpace(s[Len(s)]) THEN RStrip(SubSeq(s, 1, Len(s) - 1)) ELSE s
Strip(s) == RStrip(LStrip(s))

\* str.lower() / str.upper() on ASCII letters
Lower(s) == [i \in 1..Len(s) |-> IF s[i] \in 65..90 THEN s[i] + 32 ELSE s[i]]
Upper(s) == [i \in 1..Len(s) |-> IF s[i] \in 97..122 THEN s[i] - 32 ELSE s[i]]

\* int(s) for a non-empty string of ASCII digits
RECURSIVE IntOf(_)
IntOf(s) == IF s = <<>> THEN 0 ELSE 10 * IntOf(SubSeq(s, 1, Len(s) - 1)) + (s[Len(s)] - 48)

\* str(n) for an int
RECURSIVE NatStr(_)
NatStr(n) == IF n < 10 THEN <<48 + n>> ELSE NatStr(n \div 10) \o <<48 + (n % 10)>>
IntStr(n) == IF n < 0 THEN <<45>> \o NatStr(0 - n) ELSE NatStr(n)

(***************************************************************************)
(* UTF-8 (str.encode() / bytes.decode())                                    *)
(***************************************************************************)

\* the UTF-8 encoding of one code point (no surrogates)
Utf8EncodeChar(c) ==
    IF c < 128 THEN <<c>>
    ELSE IF c < 2048 THEN <<192 + (c \div 64), 128 + (c % 64)>>
    ELSE IF c < 65536 THEN <<224 + (c \div 4096), 128 + ((c \div 64) % 64), 128 + (c % 64)>>
    ELSE <<240 + (c \div 262144), 128 + ((c \div 4096) % 64),
           128 + ((c \div 64) % 64), 128 + (c % 64)>>

RECURSIVE Utf8Encode(_)
Utf8Encode(s) == IF s = <<>> THEN <<>> ELSE Utf8EncodeChar(Head(s)) \o Utf8Encode(Tail(s))

\* number of continuation bytes a lead byte asks for, -1 for an invalid start byte
Utf8Need(b) ==
    IF b < 128 THEN 0
    ELSE IF b \in 194..223 THEN 1
    ELSE IF b \in 224..239 THEN 2
    ELSE IF b \in 240..244 THEN 3
    ELSE -1

\* the values the second byte of a sequence may take after lead byte b
Utf8Second(b) ==
    IF b = 224 THEN 160..191
    ELSE IF b = 237 THEN 128..159
    ELSE IF b = 240 THEN 144..191
    ELSE IF b = 244 THEN 128..143
    ELSE 128..191

\* decodes the sequence at the head of bs: the code point and the bytes used, or, when
\* it is malformed, the number of bytes the 'replace' error handler skips
Utf8DecodeOne(bs) ==
    LET b1      == bs[1]
        n       == Utf8Need(b1)
        good(k) == k <= Len(bs) /\ bs[k] \in (IF k = 2 THEN Utf8Second(b1) ELSE 128..191)
        bad     == {k \in 2..(n + 1) : ~good(k)}
        cp      == IF n = 0 THEN b1
                   ELSE IF n = 1 THEN (b1 - 192) * 64 + (bs[2] - 128)
                   ELSE IF n = 2 THEN (b1 - 224) * 4096 + (bs[2] - 128) * 64 + (bs[3] - 128)
                   ELSE (b1 - 240) * 262144 + (bs[2] - 128) * 4096
                        + (bs[3] - 128) * 64 + (bs[4] - 128)
    IN  IF n = -1 THEN [ok |-> FALSE, used |-> 1]
        ELSE IF bad # {} THEN [ok |-> FALSE, used |-> (CHOOSE k \in bad : \A j \in bad : k <= j) - 1]
        ELSE [ok |-> TRUE, cp |-> cp, used |-> n + 1]

\* bytes.decode(): [ok, text]; ok = FALSE is UnicodeDecodeError
RECURSIVE Utf8Decode(_)
Utf8Decode(bs) ==
    IF bs = <<>> THEN [ok |-> TRUE, text |-> <<>>]
    ELSE LET one == Utf8DecodeOne(bs)
         IN  IF ~one.ok THEN [ok |-> FALSE, text |-> <<>>]
             ELSE LET rest == Utf8Decode(DropFirst(bs, one.used))
                  IN  [ok |-> rest.ok, text |-> IF rest.ok THEN <<one.cp>> \o rest.text ELSE <<>>]

\* bytes.decode('utf-8', 'replace'): a malformed sequence becomes U+FFFD
RECURSIVE Utf8DecodeReplace(_)
Utf8DecodeReplace(bs) ==
    IF bs = <<>> THEN <<>>
    ELSE LET one == Utf8DecodeOne(bs)
         IN  <<IF one.ok THEN one.cp ELSE 65533>> \o Utf8DecodeReplace(DropFirst(bs, one.used))

(***************************************************************************)
(* urllib.parse: quote_plus, urlencode, unquote, urlparse(...).query,       *)
(* parse_qs                                                                 *)
(***************************************************************************)

HexDigit(n) == IF n < 10 THEN 48 + n ELSE 55 + n        \* '0'..'9', 'A'..'F'
HexVal(c) ==
    IF c \in 48..57 THEN c - 48
    ELSE IF c \in 65..70 THEN c - 55
    ELSE IF c \in 97..102 THEN c - 87
    ELSE -1

\* the characters quote_plus never escapes: letters, digits and '_.-~'
IsUnreserved(c) == c \in (65..90) \cup (97..122) \cup (48..57) \cup {95, 46, 45, 126}

RECURSIVE PercentBytes(_)
PercentBytes(bs) ==
    IF bs = <<>> THEN <<>>
    ELSE <<37, HexDigit(Head(bs) \div 16), HexDigit(Head(bs) % 16)>> \o PercentBytes(Tail(bs))

\* quote_plus(s): ' ' becomes '+', an unreserved character stays, any other character
\* becomes the %XX escapes of its UTF-8 bytes
RECURSIVE QuotePlus(_)
QuotePlus(s) ==
    IF s = <<>> THEN <<>>
    ELSE LET c == Head(s)
         IN  (IF c = 32 THEN <<43>>
              ELSE IF IsUnreserved(c) THEN <<c>>
              ELSE PercentBytes(Utf8EncodeChar(c))) \o QuotePlus(Tail(s))

\* urlencode(d) of an ordered mapping d, a sequence of <<key, value>> pairs of strings
RECURSIVE UrlEncode(_)
UrlEncode(d) ==
    IF d = <<>> THEN <<>>
    ELSE LET kv == QuotePlus(d[1][1]) \o <<61>> \o QuotePlus(d[1][2])
         IN  IF Len(d) = 1 THEN kv ELSE kv \o <<38>> \o UrlEncode(Tail(d))

\* unquote_to_bytes on an ASCII string: %XX becomes the byte XX, a '%' that no two hex
\* digits follow stays
RECURSIVE UnquoteToBytes(_)
UnquoteToBytes(s) ==
    IF s = <<>> THEN <<>>
    ELSE IF s[1] = 37 /\ Len(s) >= 3 /\ HexVal(s[2]) >= 0 /\ HexVal(s[3]) >= 0
         THEN <<16 * HexVal(s[2]) + HexVal(s[3])>> \o UnquoteToBytes(DropFirst(s, 3))
         ELSE <<s[1]>> \o UnquoteToBytes(Tail(s))

\* length of the longest prefix of s whose characters are all ASCII (all non-ASCII)
RECURSIVE RunLen(_, _)
RunLen(s, ascii) ==
    IF s = <<>> \/ ((s[1] < 128) # ascii) THEN 0 ELSE 1 + RunLen(Tail(s), ascii)

\* unquote(s): the ASCII runs are percent-decoded and read as UTF-8 with 'replace',
\* the non-ASCII runs are kept
RECURSIVE UnquoteRuns(_)
UnquoteRuns(s) ==
    IF s = <<>> THEN <<>>
    ELSE LET ascii == s[1] < 128
             n     == RunLen(s, ascii)
             run   == SubSeq(s, 1, n)
         IN  (IF ascii THEN Utf8DecodeReplace(UnquoteToBytes(run)) ELSE run)
             \o UnquoteRuns(DropFirst(s, n))
Unquote(s) == IF ~Contains(s, <<37>>) THEN s ELSE UnquoteRuns(s)

\* urlparse(url).query: what follows the first '?' up to the first '#'
UrlQuery(url) ==
    LET h      == Find(url, <<35>>)
        nofrag == IF h = 0 THEN url ELSE SubSeq(url, 1, h - 1)
        q      == Find(nofrag, <<63>>)
    IN  IF q = 0 THEN <<>> ELSE DropFirst(nofrag, q)

\* parse_qsl(qs): the <<name, value>> pairs of the fields 'name=value' separated by
\* '&'; a field with no '=' or with a blank value is dropped
RECURSIVE ParseQslFields(_)
ParseQslFields(fields) ==
    IF fields = <<>> THEN <<>>
    ELSE LET nv == Split1(Head(fields), 61)
         IN  (IF Len(nv) = 2 /\ nv[2] # <<>>
              THEN << <<Unquote(Replace(nv[1], 43, 32)), Unquote(Replace(nv[2], 43, 32))>> >>
              ELSE <<>>) \o ParseQslFields(Tail(fields))
ParseQsl(qs) == ParseQslFields(Split(qs, 38))

\* parse_qs(qs).get(name): the list of the values of name in order; <<>> stands for None
RECURSIVE ValuesOf(_, _)
ValuesOf(pairs, name) ==
    IF pairs = <<>> THEN <<>>
    ELSE (IF pairs[1][1] = name THEN <<pairs[1][2]>> ELSE <<>>) \o ValuesOf(Tail(pairs), name)
ParseQsGet(qs, name) == ValuesOf(ParseQsl(qs), name)

(***************************************************************************)
(* base64.urlsafe_b64decode / urlsafe_b64encode                             *)
(***************************************************************************)

\* value of a character in the base64 alphabet after the URL-safe translation
\* ('-' as '+', '_' as '/'), 64 for a character outside the alphabet
B64Val(c) ==
    IF c \in 65..90 THEN c - 65
    ELSE IF c \in 97..122 THEN c - 71
    ELSE IF c \in 48..57 THEN c + 4
    ELSE IF c \in {43, 45} THEN 62
    ELSE IF c \in {47, 95} THEN 63
    ELSE 64

\* binascii.a2b_base64 without strict mode, as base64.b64decode calls it: a character
\* outside the alphabet is skipped; '=' ends the data once the quad holds two or more
\* characters and the padding completes it, and is skipped otherwise; data that ends
\* inside a quad is an error
RECURSIVE A2bBase64(_, _, _, _, _)
A2bBase64(s, quad_pos, leftchar, pads, out) ==
    IF s = <<>> THEN [ok |-> quad_pos = 0, bytes |-> IF quad_pos = 0 THEN out ELSE <<>>]
    ELSE LET c == Head(s)
             v == B64Val(c)
         IN  IF c = 61
             THEN IF quad_pos >= 2 /\ quad_pos + pads + 1 >= 4
                  THEN [ok |-> TRUE, bytes |-> out]
                  ELSE A2bBase64(Tail(s), quad_pos, leftchar,
                                 IF quad_pos >= 2 THEN pads + 1 ELSE pads, out)
             ELSE IF v >= 64 THEN A2bBase64(Tail(s), quad_pos, leftchar, pads, out)
             ELSE IF quad_pos = 0 THEN A2bBase64(Tail(s), 1, v, 0, out)
             ELSE IF quad_pos = 1
                  THEN A2bBase64(Tail(s), 2, v % 16, 0, Append(out, leftchar * 4 + (v \div 16)))
             ELSE IF quad_pos = 2
                  THEN A2bBase64(Tail(s), 3, v % 4, 0, Append(out, leftchar * 16 + (v \div 4)))
             ELSE A2bBase64(Tail(s), 0, 0, 0, Append(out, leftchar * 64 + v))

\* base64.urlsafe_b64decode(s) of a str: [ok, bytes]; a non-ASCII character is a
\* ValueError, malformed data a binascii.Error
UrlsafeB64Decode(s) ==
    IF \E i \in 1..Len(s) : s[i] >= 128 THEN [ok |-> FALSE, bytes |-> <<>>]
    ELSE A2bBase64(s, 0, 0, 0, <<>>)

\* the URL-safe base64 alphabet
B64Char(v) ==
    IF v < 26 THEN 65 + v
    ELSE IF v < 52 THEN 71 + v
    ELSE IF v < 62 THEN v - 4
    ELSE IF v = 62 THEN 45
    ELSE 95

\* base64.urlsafe_b64encode(bs) with the trailing '=' removed, as Bing writes the
\* destination into the u parameter
RECURSIVE B64EncodeNoPad(_)
B64EncodeNoPad(bs) ==
    IF bs = <<>> THEN <<>>
    ELSE IF Len(bs) = 1
         THEN <<B64Char(bs[1] \div 4), B64Char((bs[1] % 4) * 16)>>
    ELSE IF Len(bs) = 2
         THEN <<B64Char(bs[1] \div 4), B64Char((bs[1] % 4) * 16 + (bs[2] \div 16)),
                B64Char((bs[2] % 16) * 4)>>
    ELSE <<B64Char(bs[1] \div 4), B64Char((bs[1] % 4) * 16 + (bs[2] \div 16)),
           B64Char((bs[2] % 16) * 4 + (bs[3] \div 64)), B64Char(bs[3] % 64)>>
         \o B64EncodeNoPad(DropFirst(bs, 3))

(***************************************************************************)
(* Python values                                                            *)
(***************************************************************************)

\* None where a str is expected (no str holds the code point -1)
None == <<-1>>

\* `if x:` for a str or None
Truthy(x) == x # None /\ x # <<>>

\* the empty dict, and d.get(k, default), for a dict modelled as a function
EmptyDict == [k \in {} |-> <<>>]
Get(d, k, default) == IF k \in DOMAIN d THEN d[k] ELSE default

\* what the logger prints: the level and which message of the source
LogEntry(level, event) == [level |-> level, event |-> event]

\* what perform_search returns: a list, or None when the HTTP request failed; the
\* exception that leaves it when response raised
ListValue(items) == [type |-> "list", list |-> items]
RaisedValue(exception) == [type |-> "raised", exception |-> exception]
NoneValue        == [type |-> "NoneType"]
NotReturned      == [type |-> "not returned"]

(***************************************************************************)
(* EngineTraits and the request builder                                     *)
(***************************************************************************)

\* EngineTraits(): the process-wide locale tables as the module creates them
EngineTraits == [languages  |-> EmptyDict,
                 regions    |-> EmptyDict,
                 all_locale |-> <<101, 110, 45, 117, 115>>]        \* 'en-us'

get_region(self, locale_str, default_region_code) ==
    Get(self.regions, locale_str, default_region_code)

get_language(self, locale_str, default_language_code) ==
    Get(self.languages, locale_str, default_language_code)

base_url ==      \* 'https://www.bing.com/search'
    <<104, 116, 116, 112, 115, 58, 47, 47, 119, 119, 119, 46, 98, 105, 110, 103,
      46, 99, 111, 109, 47, 115, 101, 97, 114, 99, 104>>

\* _page_offset taking the page number as 0-based
_page_offset_ZeroBased(pageno) == pageno * 10 + 1

_page_offset(pageno) == (pageno - 1) * 10 + 1

\* set_bing_cookies that leaves a cookie the caller already set as it is
set_bing_cookies_KeepCallers(params, engine_language_code, engine_market_code) ==
    ("cookies" :> (Get(params, "cookies", EmptyDict)
                   @@ ("_EDGE_CD" :> (<<109, 61>> \o engine_market_code
                                      \o <<38, 117, 61>> \o engine_language_code))
                   @@ ("_EDGE_S" :> (<<109, 107, 116, 61>> \o engine_market_code
                                     \o <<38, 117, 105, 61>> \o engine_language_code))))
    @@ params

\* set_bing_cookies that starts from an empty cookie jar
set_bing_cookies_FreshJar(params, engine_language_code, engine_market_code) ==
    ("cookies" :> (("_EDGE_CD" :> (<<109, 61>> \o engine_market_code
                                   \o <<38, 117, 61>> \o engine_language_code))
                   @@ ("_EDGE_S" :> (<<109, 107, 116, 61>> \o engine_market_code
                                     \o <<38, 117, 105, 61>> \o engine_language_code))))
    @@ params

\* params with the two locale cookies set; the caller's other cookies stay
set_bing_cookies(params, engine_language_code, engine_market_code) ==
    LET old == Get(params, "cookies", EmptyDict)
        \* 'm=<market>&u=<language>'
        cd  == <<109, 61>> \o engine_market_code \o <<38, 117, 61>> \o engine_language_code
        \* 'mkt=<market>&ui=<language>'
        es  == <<109, 107, 116, 61>> \o engine_market_code
               \o <<38, 117, 105, 61>> \o engine_language_code
    IN  ("cookies" :> (("_EDGE_CD" :> cd) @@ ("_EDGE_S" :> es) @@ old)) @@ params

\* QueryParams without the previous-query parameter
QueryParams_NoPq(query, page) ==
    << <<<<113>>, query>> >>
    \o (IF page > 1
        THEN << <<<<102, 105, 114, 115, 116>>, IntStr(_page_offset(page))>> >>
        ELSE <<>>)
    \o (IF page = 2
        THEN << <<<<70, 79, 82, 77>>, <<80, 69, 82, 69>>>> >>
        ELSE IF page > 2
        THEN << <<<<70, 79, 82, 77>>, <<80, 69, 82, 69>> \o IntStr(page - 2)>> >>
        ELSE <<>>)

\* query_params of request: the ordered mapping handed to urlencode
QueryParams(query, page) ==
    << <<<<113>>, query>>,                                   \* 'q'
       <<<<112, 113>>, query>> >>                            \* 'pq'
    \o (IF page > 1
        THEN << <<<<102, 105, 114, 115, 116>>, IntStr(_page_offset(page))>> >>   \* 'first'
        ELSE <<>>)
    \o (IF page = 2
        THEN << <<<<70, 79, 82, 77>>, <<80, 69, 82, 69>>>> >>                   \* FORM=PERE
        ELSE IF page > 2
        THEN << <<<<70, 79, 82, 77>>, <<80, 69, 82, 69>> \o IntStr(page - 2)>> >>
        ELSE <<>>)

\* TimeRangesMap that counts the days of the clock in hours
TimeRangesMap_Hours(now) ==
    (<<100, 97, 121>> :> <<49>>)
    @@ (<<119, 101, 101, 107>> :> <<50>>)
    @@ (<<109, 111, 110, 116, 104>> :> <<51>>)
    @@ (<<121, 101, 97, 114>> :>
          (<<53, 95>> \o IntStr((now \div 3600) - 365) \o <<95>> \o IntStr(now \div 3600)))

\* time_ranges_map of request, evaluated at Unix time now
TimeRangesMap(now) ==
    LET unix_day == now \div 86400
    IN  (<<100, 97, 121>> :> <<49>>)                          \* 'day': '1'
        @@ (<<119, 101, 101, 107>> :> <<50>>)                 \* 'week': '2'
        @@ (<<109, 111, 110, 116, 104>> :> <<51>>)            \* 'month': '3'
        @@ (<<121, 101, 97, 114>> :>                          \* 'year': '5_<d-365>_<d>'
              (<<53, 95>> \o IntStr(unix_day - 365) \o <<95>> \o IntStr(unix_day)))

DefaultHeaders ==
    ("User-Agent" :> "Mozilla/5.0 (Windows NT 10.0; Win64; x64) AppleWebKit/537.36 (KHTML, like Gecko) Chrome/91.0.4472.124 Safari/537.36")
    @@ ("Accept" :> "text/html,application/xhtml+xml,application/xml;q=0.9,image/webp,*/*;q=0.8")
    @@ ("Accept-Language" :> "en-US,en;q=0.5")
    @@ ("Accept-Encoding" :> "gzip, deflate, br")
    @@ ("DNT" :> "1")
    @@ ("Connection" :> "keep-alive")
    @@ ("Upgrade-Insecure-Requests" :> "1")
    @@ ("Sec-GPC" :> "1")
    @@ ("Cache-Control" :> "max-age=0")

\* WithHeaders that fills the caller's headers up with the defaults
WithHeaders_Merged(params) ==
    ("headers" :> (Get(params, "headers", EmptyDict) @@ DefaultHeaders)) @@ params

\* if 'headers' not in params: params['headers'] = {...}
WithHeaders(params) ==
    IF "headers" \in DOMAIN params THEN params ELSE ("headers" :> DefaultHeaders) @@ params

\* request(query, params) against the locale tables self and the clock now: the
\* params it returns (cookies, url and headers filled in) and what it logs
request(query, params, self, now) ==
    LET locale   == Get(params, "searxng_locale", <<101, 110, 45, 85, 83>>)   \* 'en-US'
        bing_market_code   == get_region(self, locale, self.all_locale)
        bing_language_code == get_language(self, locale, bing_market_code)
        p1       == set_bing_cookies(params, bing_language_code, bing_market_code)
        page     == Get(params, "pageno", 1)
        plain    == base_url \o <<63>> \o UrlEncode(QueryParams(query, page))
        tr       == Get(params, "time_range", None)
        map      == TimeRangesMap(now)
        known    == Truthy(tr) /\ tr \in DOMAIN map
        \* '&filters=ex1:"ez<code>"'
        url      == IF known
                    THEN plain \o <<38, 102, 105, 108, 116, 101, 114, 115, 61, 101, 120, 49, 58, 34, 101, 122>>
                         \o map[tr] \o <<34>>
                    ELSE plain
        p2       == ("url" :> url) @@ p1
        p3       == WithHeaders(p2)
    IN  [params |-> p3,
         log    |-> IF Truthy(tr) /\ ~known
                    THEN <<LogEntry("warning", "Unsupported time_range specified")>>
                    ELSE <<>>]

(***************************************************************************)
(* The response parser                                                      *)
(*                                                                          *)
(* The parsed page, as far as the XPath queries of response read it:        *)
(*   blocks    the elements //ol[@id="b_results"]/li[contains(@class,       *)
(*             "b_algo")] in document order, each                           *)
(*               anchor  whether the block has an .//h2/a                   *)
(*               href    the anchor's href attribute, None when it has none *)
(*               title   the anchor's text_content()                        *)
(*               paras   the block's .//p elements, each the text before    *)
(*                       its first child and its child spans (class         *)
(*                       attribute, text, tail text)                        *)
(*   sb_count  the text nodes //span[@class="sb_count"]//text()             *)
(* A text that html.fromstring rejects has the further field fromstring,    *)
(* the exception raised: ParserError for a text without any element (an     *)
(* empty body), ValueError for a str that starts with an XML declaration    *)
(* naming an encoding.                                                      *)
(***************************************************************************)

CkPrefix ==      \* 'https://www.bing.com/ck/a?'
    <<104, 116, 116, 112, 115, 58, 47, 47, 119, 119, 119, 46, 98, 105, 110, 103,
      46, 99, 111, 109, 47, 99, 107, 47, 97, 63>>

IconClass ==     \* 'algoSlug_icon'
    <<97, 108, 103, 111, 83, 108, 117, 103, 95, 105, 99, 111, 110>>

\* extract_text of a list of already extracted texts: joined by ' ' and stripped
extract_text(texts) == Strip(Join(texts, <<32>>))

\* text_content() of a paragraph: its text, then each child's text and tail
RECURSIVE SpansText(_)
SpansText(spans) ==
    IF spans = <<>> THEN <<>>
    ELSE Head(spans).text \o Head(spans).tail \o SpansText(Tail(spans))
text_content(p) == p.text \o SpansText(p.spans)

\* the paragraph after parent.remove(icon) for each badge span: lxml removes the
\* element together with its tail text
IsNotIcon(span) == span.class # IconClass
StripIcons(p) == [p EXCEPT !.spans = SelectSeq(p.spans, IsNotIcon)]

\* content of a block: the badges removed, then extract_text of the paragraphs
BlockContent(paras) ==
    extract_text([i \in 1..Len(paras) |-> text_content(StripIcons(paras[i]))])

\* PadTo4 that restores no padding
PadTo4_None(actual_encoded_url) == actual_encoded_url

\* actual_encoded_url + '=' * (-len(actual_encoded_url) % 4)
PadTo4(actual_encoded_url) ==
    actual_encoded_url \o [i \in 1..((4 - (Len(actual_encoded_url) % 4)) % 4) |-> 61]

\* base64.urlsafe_b64decode(...).decode(): [ok, text]; ok = FALSE when either raises
DecodePayload(raw) ==
    IF raw.ok THEN Utf8Decode(raw.bytes) ELSE [ok |-> FALSE, text |-> <<>>]

\* the try/except around the decoding: the decoded text, or the href kept and an error
\* logged
DecodedOr(url, txt) ==
    IF txt.ok
    THEN [url |-> txt.text, log |-> <<>>]
    ELSE [url |-> url, log |-> <<LogEntry("error", "Error decoding Bing redirect URL")>>]

\* the branch on param_u_values, the values of the u parameter
DecodeParamU(url, param_u_values) ==
    IF param_u_values # <<>>
    THEN DecodedOr(url, DecodePayload(UrlsafeB64Decode(PadTo4(DropFirst(param_u_values[1], 2)))))
    ELSE [url |-> url, log |-> <<LogEntry("warning", "Could not parse 'u' parameter")>>]

\* DecodeUrl that looks for the tracking prefix anywhere in the href
DecodeUrl_Anywhere(url) ==
    IF Truthy(url) /\ Contains(url, CkPrefix)
    THEN DecodeParamU(url, ParseQsGet(UrlQuery(url), <<117>>))
    ELSE [url |-> url, log |-> <<>>]

\* the redirect decoding of response: the url of the item and what is logged
DecodeUrl(url) ==
    IF Truthy(url) /\ StartsWith(url, CkPrefix)
    THEN DecodeParamU(url, ParseQsGet(UrlQuery(url), <<117>>))             \* 'u'
    ELSE [url |-> url, log |-> <<>>]

\* AppendItem that leaves out an item equal to one that follows it
AppendItem_Dedup(b, dec, rest) ==
    IF \E i \in 1..Len(rest.results) :
           rest.results[i] = [url |-> dec.url, title |-> extract_text(<<b.title>>),
                              content |-> BlockContent(b.paras)]
    THEN rest
    ELSE [results |-> <<[url     |-> dec.url,
                         title   |-> extract_text(<<b.title>>),
                         content |-> BlockContent(b.paras)]>> \o rest.results,
          log     |-> dec.log \o rest.log]

\* results.append({'url': url, 'title': title, 'content': content}) for block b, whose
\* href decoded to dec, before the items rest of the blocks after it
AppendItem(b, dec, rest) ==
    [results |-> <<[url     |-> dec.url,
                    title   |-> extract_text(<<b.title>>),
                    content |-> BlockContent(b.paras)]>> \o rest.results,
     log     |-> dec.log \o rest.log]

\* the loop over result_elements: the items appended to results and what is logged
RECURSIVE ExtractItems(_)
ExtractItems(result_elements) ==
    IF result_elements = <<>> THEN [results |-> <<>>, log |-> <<>>]
    ELSE IF ~Head(result_elements).anchor THEN ExtractItems(Tail(result_elements))
    ELSE AppendItem(Head(result_elements), DecodeUrl(Head(result_elements).href),
                    ExtractItems(Tail(result_elements)))

\* re.split(r'-\d+', s, maxsplit=1): s cut at the first '-' that a digit follows
\* (the '-' and its digits dropped), or s alone
ReSplitDashDigits(s) ==
    LET hits == {i \in 1..(Len(s) - 1) : s[i] = 45 /\ IsDigit(s[i + 1])}
    IN  IF hits = {} THEN <<s>>
        ELSE LET i    == CHOOSE h \in hits : \A k \in hits : h <= k
                 ends == {j \in (i + 1)..Len(s) : \A k \in (i + 1)..j : IsDigit(s[k])}
                 e    == CHOOSE j \in ends : \A k \in ends : j >= k
             IN  <<SubSeq(s, 1, i - 1), DropFirst(s, e)>>

\* the banner text response reads
ResultCountStr(doc) == Strip(Concat(doc.sb_count))

\* first_part_numeric -> current_page_start_index
StartOf(first_part_numeric) ==
    IF first_part_numeric # <<>> THEN IntOf(first_part_numeric) ELSE 1

\* current_page_start_index: the number before the first '-<digits>', 1 by default
StartIndex(str) ==
    IF Contains(str, <<45>>) THEN StartOf(DigitsOf(ReSplitDashDigits(str)[1])) ELSE 1

\* a reading of the total that takes all the digits of the banner
AfterLastOf_WholeText(str) == str

\* s.split('of')[-1]
AfterLastOf(str) == DropFirst(str, RFind(str, <<111, 102>>) + 1)

\* parts[-1]
Last(parts) == parts[Len(parts)]

\* numeric_part_of_total_count -> total_results_count
TotalOf(numeric_part_of_total_count) ==
    IF numeric_part_of_total_count # <<>> THEN IntOf(numeric_part_of_total_count) ELSE 0

\* total_results_count: the digits after the last 'of' (of the part after the split when
\* there is no 'of') for a banner with '-', all the digits of the banner otherwise
TotalCount(str) ==
    IF Contains(str, <<45>>)
    THEN IF Contains(str, <<111, 102>>)                                  \* 'of'
         THEN TotalOf(DigitsOf(AfterLastOf(str)))
         ELSE TotalOf(DigitsOf(Last(ReSplitDashDigits(str))))
    ELSE TotalOf(DigitsOf(str))

\* a summary under another key
Summary_RenamedKey(total_results_count) == [total |-> total_results_count]

\* the summary element appended as the last item
Summary(total_results_count) == [number_of_results |-> total_results_count]

\* IsBeyondLastPage with the comparison of offset and total the wrong way round
IsBeyondLastPage_Reversed(expected_page_start_offset, total_results_count, current_page_start_index) ==
    /\ total_results_count > expected_page_start_offset
    /\ total_results_count > 0
    /\ current_page_start_index = 1

\* IsBeyondLastPage without the comparison of offset and total
IsBeyondLastPage_AnyTotal(expected_page_start_offset, total_results_count, current_page_start_index) ==
    /\ total_results_count > 0
    /\ current_page_start_index = 1

\* the condition under which response returns [] for a page 1 served in place of a
\* page beyond the available results
IsBeyondLastPage(expected_page_start_offset, total_results_count, current_page_start_index) ==
    /\ expected_page_start_offset > total_results_count
    /\ total_results_count > 0
    /\ current_page_start_index = 1

\* a check that expects the zero-based offset (p-1)*10 where request sent (p-1)*10+1
IsMismatch_ZeroBasedOffset(requested_pageno, current_page_start_index, expected_page_start_offset) ==
    requested_pageno > 1 /\ current_page_start_index # expected_page_start_offset - 1

\* requested_pageno > 1 and current_page_start_index != expected_page_start_offset
IsMismatch(requested_pageno, current_page_start_index, expected_page_start_offset) ==
    requested_pageno > 1 /\ current_page_start_index # expected_page_start_offset

\* Decide hardened: any page whose start differs from the expected offset is discarded
Decide_Strict(ext, found, requested_pageno, current_page_start_index, total_results_count, expected_page_start_offset) ==
    IF found /\ current_page_start_index # expected_page_start_offset
    THEN [ret |-> <<>>,
          log |-> ext.log
                  \o <<LogEntry("warning", "Bing returned page 1 instead of requested page")>>]
    ELSE [ret |-> ext.results \o <<Summary(total_results_count)>>, log |-> ext.log]

\* Decide returning from the mismatch warning without the summary
Decide_NoSummaryOnMismatch(ext, found, requested_pageno, current_page_start_index, total_results_count, expected_page_start_offset) ==
    IF /\ found
       /\ IsMismatch(requested_pageno, current_page_start_index, expected_page_start_offset)
    THEN IF IsBeyondLastPage(expected_page_start_offset, total_results_count,
                             current_page_start_index)
         THEN [ret |-> <<>>,
               log |-> ext.log
                       \o <<LogEntry("warning", "Bing returned page 1 instead of requested page")>>]
         ELSE [ret |-> ext.results,
               log |-> ext.log \o <<LogEntry("warning", "Page number mismatch detected")>>]
    ELSE [ret |-> ext.results \o <<Summary(total_results_count)>>, log |-> ext.log]

\* the consistency check and the return of response, given the items extracted (ext),
\* whether result_elements is non-empty (found), and the banner's numbers
Decide(ext, found, requested_pageno, current_page_start_index, total_results_count, expected_page_start_offset) ==
    IF /\ found
       /\ IsMismatch(requested_pageno, current_page_start_index, expected_page_start_offset)
    THEN IF IsBeyondLastPage(expected_page_start_offset, total_results_count,
                             current_page_start_index)
         THEN [ret |-> <<>>,
               log |-> ext.log
                       \o <<LogEntry("warning", "Bing returned page 1 instead of requested page")>>]
         ELSE [ret |-> ext.results \o <<Summary(total_results_count)>>,
               log |-> ext.log \o <<LogEntry("warning", "Page number mismatch detected")>>]
    ELSE [ret |-> ext.results \o <<Summary(total_results_count)>>, log |-> ext.log]

\* response that returns the empty list when no result block is found
response_EmptyOnNoResults(doc, requested_pageno) ==
    IF doc.blocks = <<>> THEN [ret |-> <<>>, log |-> <<>>]
    ELSE Decide(ExtractItems(doc.blocks), TRUE, requested_pageno,
                StartIndex(ResultCountStr(doc)), TotalCount(ResultCountStr(doc)),
                _page_offset(requested_pageno))

\* response that reads the banner and runs the check whether or not a block was found
response_AlwaysChecks(doc, requested_pageno) ==
    Decide(ExtractItems(doc.blocks), TRUE, requested_pageno,
           StartIndex(ResultCountStr(doc)), TotalCount(ResultCountStr(doc)),
           _page_offset(requested_pageno))

\* response(resp_text, requested_pageno) on the parsed page doc: the list it returns
\* and what it logs, or the exception html.fromstring raised; the banner is read only
\* when result_elements is non-empty
response(doc, requested_pageno) ==
    IF "fromstring" \in DOMAIN doc
    THEN [raised |-> doc.fromstring, ret |-> <<>>, log |-> <<>>]
    ELSE Decide(ExtractItems(doc.blocks),
                doc.blocks # <<>>,
                requested_pageno,
                StartIndex(ResultCountStr(doc)),
                IF doc.blocks # <<>> THEN TotalCount(ResultCountStr(doc)) ELSE 0,
                _page_offset(requested_pageno))

(***************************************************************************)
(* The Bing engines of the other directories                                *)
(*                                                                          *)
(*   src/simplified_engines/bing.py    request, response                    *)
(*   src/manus_work/engines/bing.py    request, parse_response              *)
(*                                                                          *)
(* Each is translated from its own file.  They read the page through the    *)
(* same XPath queries as response, so they are applied to the same parsed   *)
(* page.  What a function returns is a ListValue, what leaves it as an      *)
(* exception a RaisedValue.                                                 *)
(***************************************************************************)

Simplified_base_url ==      \* 'https://www.bing.com/search'
    <<104, 116, 116, 112, 115, 58, 47, 47, 119, 119, 119, 46, 98, 105, 110, 103,
      46, 99, 111, 109, 47, 115, 101, 97, 114, 99, 104>>

Simplified_page_offset(pageno) == (pageno - 1) * 10 + 1

\* set_bing_cookies(params, engine_language, engine_region)
Simplified_set_bing_cookies(params, engine_language, engine_region) ==
    ("cookies" :> (("_EDGE_CD" :> (<<109, 61>> \o engine_region
                                   \o <<38, 117, 61>> \o engine_language))
                   @@ ("_EDGE_S" :> (<<109, 107, 116, 61>> \o engine_region
                                     \o <<38, 117, 105, 61>> \o engine_language))
                   @@ Get(params, "cookies", EmptyDict)))
    @@ params

\* query_params without the page-state marker FORM
Simplified_QueryParams_NoForm(query, page) ==
    << <<<<113>>, query>>, <<<<112, 113>>, query>> >>
    \o (IF page > 1
        THEN << <<<<102, 105, 114, 115, 116>>, IntStr(Simplified_page_offset(page))>> >>
        ELSE <<>>)

\* query_params: q, pq, then first and FORM from page 2 on
Simplified_QueryParams(query, page) ==
    << <<<<113>>, query>>, <<<<112, 113>>, query>> >>
    \o (IF page > 1
        THEN << <<<<102, 105, 114, 115, 116>>, IntStr(Simplified_page_offset(page))>> >>
        ELSE <<>>)
    \o (IF page = 2
        THEN << <<<<70, 79, 82, 77>>, <<80, 69, 82, 69>>>> >>
        ELSE IF page > 2
        THEN << <<<<70, 79, 82, 77>>, <<80, 69, 82, 69>> \o IntStr(page - 2)>> >>
        ELSE <<>>)

\* time_ranges at Unix time now
Simplified_time_ranges(now) ==
    (<<100, 97, 121>> :> <<49>>)
    @@ (<<119, 101, 101, 107>> :> <<50>>)
    @@ (<<109, 111, 110, 116, 104>> :> <<51>>)
    @@ (<<121, 101, 97, 114>> :>
          (<<53, 95>> \o IntStr((now \div 86400) - 365) \o <<95>> \o IntStr(now \div 86400)))

\* params with the url, and the filter of the time range time_range appended to it;
\* time_ranges[...] of a key it does not have is a KeyError, after url was set
Simplified_Filtered(params, url, time_range, time_ranges) ==
    IF ~Truthy(time_range) THEN [params |-> ("url" :> url) @@ params]
    ELSE IF time_range \notin DOMAIN time_ranges
    THEN [raised |-> "KeyError", params |-> ("url" :> url) @@ params]
    ELSE [params |-> ("url" :> (url \o <<38, 102, 105, 108, 116, 101, 114, 115, 61, 101,
                                        120, 49, 58, 34, 101, 122>>
                                \o time_ranges[time_range] \o <<34>>)) @@ params]

\* request(query, params) at Unix time now
Simplified_request(query, params, now) ==
    Simplified_Filtered(
        Simplified_set_bing_cookies(params, Get(params, "language", <<101, 110>>),
                                    Get(params, "region", <<101, 110, 45, 85, 83>>)),
        Simplified_base_url \o <<63>>
            \o UrlEncode(Simplified_QueryParams(query, Get(params, "pageno", 1))),
        Get(params, "time_range", None),
        Simplified_time_ranges(now))

Manus_base_url ==      \* 'https://www.bing.com/search'
    <<104, 116, 116, 112, 115, 58, 47, 47, 119, 119, 119, 46, 98, 105, 110, 103,
      46, 99, 111, 109, 47, 115, 101, 97, 114, 99, 104>>

Manus_page_offset(pageno) == (pageno - 1) * 10 + 1

\* query_params: q, pq, then first and FORM from page 2 on
Manus_QueryParams(query, page_number) ==
    << <<<<113>>, query>>, <<<<112, 113>>, query>> >>
    \o (IF page_number > 1
        THEN << <<<<102, 105, 114, 115, 116>>, IntStr(Manus_page_offset(page_number))>> >>
        ELSE <<>>)
    \o (IF page_number = 2
        THEN << <<<<70, 79, 82, 77>>, <<80, 69, 82, 69>>>> >>
        ELSE IF page_number > 2
        THEN << <<<<70, 79, 82, 77>>, <<80, 69, 82, 69>> \o IntStr(page_number - 2)>> >>
        ELSE <<>>)

\* time_ranges at Unix time now
Manus_time_ranges(now) ==
    (<<100, 97, 121>> :> <<49>>)
    @@ (<<119, 101, 101, 107>> :> <<50>>)
    @@ (<<109, 111, 110, 116, 104>> :> <<51>>)
    @@ (<<121, 101, 97, 114>> :>
          (<<53, 95>> \o IntStr((now \div 86400) - 365) \o <<95>> \o IntStr(now \div 86400)))

\* request(query, page_number, time_range, language, region) at Unix time now: the
\* descriptor it returns; a time range that is not in time_ranges adds nothing
Manus_request(query, page_number, time_range, language, region, now) ==
    [url     |-> Manus_base_url \o <<63>> \o UrlEncode(Manus_QueryParams(query, page_number))
                 \o (IF Truthy(time_range) /\ time_range \in DOMAIN Manus_time_ranges(now)
                     THEN <<38, 102, 105, 108, 116, 101, 114, 115, 61, 101, 120, 49, 58,
                            34, 101, 122>>
                          \o Manus_time_ranges(now)[time_range] \o <<34>>
                     ELSE <<>>),
     method  |-> "GET",
     headers |-> ("Cookie" :> (<<95, 69, 68, 71, 69, 95, 67, 68, 61, 109, 61>> \o region
                               \o <<38, 117, 61>> \o language
                               \o <<59, 32, 95, 69, 68, 71, 69, 95, 83, 61, 109, 107, 116, 61>>
                               \o region \o <<38, 117, 105, 61>> \o language))
                 @@ ("User-Agent" :> "Mozilla/5.0 (Windows NT 10.0; Win64; x64) AppleWebKit/537.36 (KHTML, like Gecko) Chrome/109.0.0.0 Safari/537.36")]

\* re.split(r'-\d+', s): s cut at every '-' that a digit follows
RECURSIVE ReSplitAllDashDigits(_)
ReSplitAllDashDigits(s) ==
    IF Len(ReSplitDashDigits(s)) = 1 THEN <<s>>
    ELSE <<ReSplitDashDigits(s)[1]>> \o ReSplitAllDashDigits(ReSplitDashDigits(s)[2])

\* int(s) of a str over ASCII: white space around, a sign, then digits, with single
\* underscores between digits; ok = FALSE is ValueError
IntLiteral(s) ==
    LET t    == Strip(s)
        body == IF t # <<>> /\ t[1] \in {43, 45} THEN Tail(t) ELSE t
        ok   == /\ body # <<>>
                /\ \A i \in 1..Len(body) :
                      \/ IsDigit(body[i])
                      \/ /\ body[i] = 95
                         /\ 1 < i /\ i < Len(body)
                         /\ IsDigit(body[i - 1]) /\ IsDigit(body[i + 1])
    IN  [ok    |-> ok,
         value |-> IF ~ok THEN 0
                   ELSE IF t[1] = 45 THEN 0 - IntOf(SelectSeq(body, IsDigit))
                   ELSE IntOf(SelectSeq(body, IsDigit))]

\* the url of an item of response in src/simplified_engines/bing.py for the href url,
\* or the exception raised: startswith of None, the u parameter missing, the base64 or
\* the UTF-8 decoding failing
Simplified_Url(url) ==
    IF url = None THEN [raised |-> "AttributeError", url |-> None]
    ELSE IF ~StartsWith(url, CkPrefix) THEN [raised |-> "", url |-> url]
    ELSE IF ParseQsGet(UrlQuery(url), <<117>>) = <<>> THEN [raised |-> "KeyError", url |-> url]
    ELSE LET encoded_url == DropFirst(ParseQsGet(UrlQuery(url), <<117>>)[1], 2)
             raw == UrlsafeB64Decode(
                        encoded_url \o [i \in 1..((4 - (Len(encoded_url) % 4)) % 4) |-> 61])
         IN  IF ~raw.ok THEN [raised |-> "binascii.Error", url |-> url]
             ELSE IF ~Utf8Decode(raw.bytes).ok
             THEN [raised |-> "UnicodeDecodeError", url |-> url]
             ELSE [raised |-> "", url |-> Utf8Decode(raw.bytes).text]

\* the loop over the result blocks: the items appended to results, or the exception
\* that ends it.  extract_text is imported from .utils, which is not in the directory;
\* the item texts are taken as extract_text of src/bing_search.py gives them.
RECURSIVE Simplified_ExtractItems(_)
Simplified_ExtractItems(blocks) ==
    IF blocks = <<>> THEN [raised |-> "", results |-> <<>>]
    ELSE IF ~Head(blocks).anchor THEN Simplified_ExtractItems(Tail(blocks))
    ELSE IF Simplified_Url(Head(blocks).href).raised # ""
    THEN [raised |-> Simplified_Url(Head(blocks).href).raised, results |-> <<>>]
    ELSE IF Simplified_ExtractItems(Tail(blocks)).raised # ""
    THEN Simplified_ExtractItems(Tail(blocks))
    ELSE [raised  |-> "",
          results |-> <<[url     |-> Simplified_Url(Head(blocks).href).url,
                         title   |-> extract_text(<<Head(blocks).title>>),
                         content |-> BlockContent(Head(blocks).paras)]>>
                      \o Simplified_ExtractItems(Tail(blocks)).results]

\* start and result_len read from the banner text: the two parts of re.split unpacked,
\* int(start_str), the digits of the rest; ValueError when the split gives other than
\* two parts or start_str is not an int literal
Simplified_Banner(result_len_container) ==
    IF ~Contains(result_len_container, <<45>>)
    THEN [raised |-> "", start |-> 1,
          result_len |-> IF DigitsOf(result_len_container) # <<>>
                         THEN IntOf(DigitsOf(result_len_container)) ELSE 0]
    ELSE LET parts == ReSplitAllDashDigits(result_len_container)
         IN  IF Len(parts) # 2 \/ ~IntLiteral(parts[1]).ok
             THEN [raised |-> "ValueError", start |-> 1, result_len |-> 0]
             ELSE [raised |-> "", start |-> IntLiteral(parts[1]).value,
                   result_len |-> IF DigitsOf(parts[2]) # <<>>
                                  THEN IntOf(DigitsOf(parts[2])) ELSE 0]

\* the check of response on the page start, for a non-empty results
Simplified_Decide(results, banner, expected_start) ==
    IF banner.raised # "" THEN RaisedValue(banner.raised)
    ELSE IF expected_start # banner.start
    THEN IF expected_start > banner.result_len
         THEN ListValue(<<>>)
         ELSE RaisedValue("SearxEngineAPIException")
    ELSE ListValue(results \o <<[number_of_results |-> banner.result_len]>>)

\* response(resp) of src/simplified_engines/bing.py on the parsed page doc, with
\* resp.search_params['pageno'] = pageno: the banner is read when results is non-empty
Simplified_response(doc, pageno) ==
    IF "fromstring" \in DOMAIN doc THEN RaisedValue(doc.fromstring)
    ELSE IF Simplified_ExtractItems(doc.blocks).raised # ""
    THEN RaisedValue(Simplified_ExtractItems(doc.blocks).raised)
    ELSE IF Simplified_ExtractItems(doc.blocks).results = <<>>
    THEN ListValue(<<[number_of_results |-> 0]>>)
    ELSE Simplified_Decide(Simplified_ExtractItems(doc.blocks).results,
                           Simplified_Banner(Concat(doc.sb_count)),
                           Simplified_page_offset(pageno))

\* extract_text of src/manus_work/core/utils.py on a list of elements: the text content
\* of each, stripped, joined by ' '
Manus_extract_text(paras) ==
    Join([i \in 1..Len(paras) |-> Strip(text_content(StripIcons(paras[i])))], <<32>>)

\* the url of an item of parse_response for the href url; skip when the decoding
\* raised and the result is left out; the exception raised outside the try: startswith
\* of None, the u parameter missing
Manus_Url(url) ==
    IF url = None THEN [raised |-> "AttributeError", skip |-> FALSE, url |-> None]
    ELSE IF ~StartsWith(url, CkPrefix) THEN [raised |-> "", skip |-> FALSE, url |-> url]
    ELSE IF ParseQsGet(UrlQuery(url), <<117>>) = <<>>
    THEN [raised |-> "KeyError", skip |-> FALSE, url |-> url]
    ELSE LET encoded_url == DropFirst(ParseQsGet(UrlQuery(url), <<117>>)[1], 2)
             raw == UrlsafeB64Decode(
                        encoded_url \o [i \in 1..((4 - (Len(encoded_url) % 4)) % 4) |-> 61])
         IN  IF raw.ok /\ Utf8Decode(raw.bytes).ok
             THEN [raised |-> "", skip |-> FALSE, url |-> Utf8Decode(raw.bytes).text]
             ELSE [raised |-> "", skip |-> TRUE, url |-> url]

\* the loop over the result blocks: the items appended to results, or the exception
\* that ends it
RECURSIVE Manus_ExtractItems(_)
Manus_ExtractItems(blocks) ==
    IF blocks = <<>> THEN [raised |-> "", results |-> <<>>]
    ELSE IF ~Head(blocks).anchor THEN Manus_ExtractItems(Tail(blocks))
    ELSE IF Manus_Url(Head(blocks).href).raised # ""
    THEN [raised |-> Manus_Url(Head(blocks).href).raised, results |-> <<>>]
    ELSE IF Manus_Url(Head(blocks).href).skip THEN Manus_ExtractItems(Tail(blocks))
    ELSE IF Manus_ExtractItems(Tail(blocks)).raised # "" THEN Manus_ExtractItems(Tail(blocks))
    ELSE [raised  |-> "",
          results |-> <<[url     |-> Manus_Url(Head(blocks).href).url,
                         title   |-> Strip(Head(blocks).title),
                         content |-> Manus_extract_text(Head(blocks).paras)]>>
                      \o Manus_ExtractItems(Tail(blocks)).results]

\* parse_response(response_text, page_number) of src/manus_work/engines/bing.py on the
\* parsed page doc: html.fromstring is given bytes, which it rejects only when empty
Manus_parse_response(doc, page_number) ==
    IF "fromstring" \in DOMAIN doc /\ doc.fromstring = "ParserError"
    THEN RaisedValue("ParserError")
    ELSE IF Manus_ExtractItems(doc.blocks).raised # ""
    THEN RaisedValue(Manus_ExtractItems(doc.blocks).raised)
    ELSE ListValue(Manus_ExtractItems(doc.blocks).results)

(***************************************************************************)
(* perform_search as a process                                              *)
(*                                                                          *)
(* Each thread runs one perform_search call.  The traits object is shared   *)
(* by the threads; everything else is local to the call.  A thread may be   *)
(* interrupted between any two statements, so the three assignments to      *)
(* traits and the call of request are separate steps.                       *)
(***************************************************************************)

VARIABLES
    traits,         \* the module-level EngineTraits instance
    clock,          \* what time.time() returns
    upstream,       \* per thread: the page Bing serves for the thread's request
    variant,        \* per thread: what the engines of the other directories returned
                    \* for the thread's call, by function
    pc,             \* per thread: the statement of perform_search it is at
    args,           \* per thread: the arguments of the perform_search call
    req_params,     \* per thread: the dict req_params / search_request_details
    wire,           \* per thread: the HTTP requests sent, in order
    http_response,  \* per thread: the parsed body of the response received
    ret,            \* per thread: what perform_search returned
    log             \* per thread: what the call made the logger print

vars ==
    <<traits, clock, upstream, variant, pc, args, req_params, wire, http_response, ret, log>>

Threads == {1, 2}

NoDoc == [blocks |-> <<>>, sb_count |-> <<>>]

\* f"{language.lower()}-{region.upper()}" and f"{language.lower()}-{region.lower()}"
LocaleKey(language, region)      == Lower(language) \o <<45>> \o Upper(region)
MarketLangCode(language, region) == Lower(language) \o <<45>> \o Lower(region)

\* req_params = {...}: lines 401-408
PS_Params(t) ==
    /\ pc[t] = "ps_params"
    /\ req_params' = [req_params EXCEPT ![t] =
           (IF Truthy(args[t].time_range)
            THEN ("time_range" :> args[t].time_range) ELSE EmptyDict)
           @@ [pageno         |-> args[t].pageno,
               searxng_locale |-> LocaleKey(args[t].language, args[t].region)]]
    /\ pc' = [pc EXCEPT ![t] = "ps_languages"]
    /\ UNCHANGED <<traits, clock, upstream, variant, args, wire, http_response, ret, log>>

\* traits.languages = {locale_key: bing_market_lang_code}: line 416
PS_SetLanguages(t) ==
    /\ pc[t] = "ps_languages"
    /\ traits' = [traits EXCEPT !.languages =
           LocaleKey(args[t].language, args[t].region)
               :> MarketLangCode(args[t].language, args[t].region)]
    /\ pc' = [pc EXCEPT ![t] = "ps_regions"]
    /\ UNCHANGED <<clock, upstream, variant, args, req_params, wire, http_response, ret, log>>

\* traits.regions = {locale_key: bing_market_lang_code}: line 417
PS_SetRegions(t) ==
    /\ pc[t] = "ps_regions"
    /\ traits' = [traits EXCEPT !.regions =
           LocaleKey(args[t].language, args[t].region)
               :> MarketLangCode(args[t].language, args[t].region)]
    /\ pc' = [pc EXCEPT ![t] = "ps_all_locale"]
    /\ UNCHANGED <<clock, upstream, variant, args, req_params, wire, http_response, ret, log>>

\* traits.all_locale = bing_market_lang_code: line 418
PS_SetAllLocale(t) ==
    /\ pc[t] = "ps_all_locale"
    /\ traits' = [traits EXCEPT !.all_locale =
           MarketLangCode(args[t].language, args[t].region)]
    /\ pc' = [pc EXCEPT ![t] = "ps_request"]
    /\ UNCHANGED <<clock, upstream, variant, args, req_params, wire, http_response, ret, log>>

\* thread t gets r back from request: the params filled in, its messages logged
Requested(t, r) ==
    /\ req_params' = [req_params EXCEPT ![t] = r.params]
    /\ log' = [log EXCEPT ![t] = @ \o r.log]

\* search_request_details = request(query, req_params): line 421
PS_Request(t) ==
    /\ pc[t] = "ps_request"
    /\ Requested(t, request(args[t].query, req_params[t], traits, clock))
    /\ pc' = [pc EXCEPT ![t] = "ps_get"]
    /\ UNCHANGED <<traits, clock, upstream, variant, args, wire, http_response, ret>>

\* the descriptor handed to requests.get: lines 425-430
Sent(params) == [url     |-> params["url"],
                 headers |-> params["headers"],
                 cookies |-> Get(params, "cookies", EmptyDict)]

\* requests.get answers 200 with the page: lines 424-431
PS_GetOk(t) ==
    /\ pc[t] = "ps_get"
    /\ wire' = [wire EXCEPT ![t] = Append(@, Sent(req_params[t]))]
    /\ http_response' = [http_response EXCEPT ![t] = upstream[t]]
    /\ pc' = [pc EXCEPT ![t] = "ps_response"]
    /\ UNCHANGED <<traits, clock, upstream, variant, args, req_params, ret, log>>

\* PS_GetFail that returns an empty list
PS_GetFail_EmptyList(t) ==
    /\ pc[t] = "ps_get"
    /\ wire' = [wire EXCEPT ![t] = Append(@, Sent(req_params[t]))]
    /\ log' = [log EXCEPT ![t] = Append(@, LogEntry("error", "HTTP request failed"))]
    /\ ret' = [ret EXCEPT ![t] = ListValue(<<>>)]
    /\ pc' = [pc EXCEPT ![t] = "done"]
    /\ UNCHANGED <<traits, clock, upstream, variant, args, req_params, http_response>>

\* requests.get or raise_for_status raises RequestException: lines 432-434
PS_GetFail(t) ==
    /\ pc[t] = "ps_get"
    /\ wire' = [wire EXCEPT ![t] = Append(@, Sent(req_params[t]))]
    /\ log' = [log EXCEPT ![t] = Append(@, LogEntry("error", "HTTP request failed"))]
    /\ ret' = [ret EXCEPT ![t] = NoneValue]
    /\ pc' = [pc EXCEPT ![t] = "done"]
    /\ UNCHANGED <<traits, clock, upstream, variant, args, req_params, http_response>>

\* thread t gets r back from response: its list is returned, its messages are logged;
\* an exception of response is not caught
Returned(t, r) ==
    /\ ret' = [ret EXCEPT ![t] =
                  IF "raised" \in DOMAIN r THEN RaisedValue(r.raised) ELSE ListValue(r.ret)]
    /\ log' = [log EXCEPT ![t] = @ \o r.log]

\* parsed_results = response(http_response.text, ...); return parsed_results:
\* lines 438-439
PS_Response(t) ==
    /\ pc[t] = "ps_response"
    /\ Returned(t, response(http_response[t], Get(req_params[t], "pageno", 1)))
    /\ pc' = [pc EXCEPT ![t] = "done"]
    /\ UNCHANGED <<traits, clock, upstream, variant, args, req_params, wire, http_response>>

\* request(query, params) called by a caller of its own, with the caller's params:
\* lines 181-247
CallRequest(t) ==
    /\ pc[t] = "request"
    /\ Requested(t, request(args[t].query, req_params[t], traits, clock))
    /\ pc' = [pc EXCEPT ![t] = "returned"]
    /\ UNCHANGED <<traits, clock, upstream, variant, args, wire, http_response, ret>>

Next ==
    \E t \in Threads :
        \/ PS_Params(t)
        \/ PS_SetLanguages(t)
        \/ PS_SetRegions(t)
        \/ PS_SetAllLocale(t)
        \/ PS_Request(t)
        \/ PS_GetOk(t)
        \/ PS_GetFail(t)
        \/ PS_Response(t)

\* the callers of request alone
NextBuild == \E t \in Threads : CallRequest(t)

\* the request of src/simplified_engines/bing.py called with a copy of the caller's params
CallSimplifiedRequest(t) ==
    /\ pc[t] \in {"request", "returned"}
    /\ "simplified_request" \notin DOMAIN variant[t]
    /\ variant' = [variant EXCEPT ![t] =
           ("simplified_request" :> Simplified_request(args[t].query, args[t].params, clock))
           @@ @]
    /\ UNCHANGED <<traits, clock, upstream, pc, args, req_params, wire, http_response, ret, log>>

\* the request of src/manus_work/engines/bing.py called with the caller's query, page
\* and time range, and its default language and region
CallManusRequest(t) ==
    /\ pc[t] \in {"request", "returned"}
    /\ "manus_request" \notin DOMAIN variant[t]
    /\ variant' = [variant EXCEPT ![t] =
           ("manus_request" :> Manus_request(args[t].query,
                                             Get(args[t].params, "pageno", 1),
                                             Get(args[t].params, "time_range", None),
                                             <<101, 110, 45, 85, 83>>,
                                             <<101, 110, 45, 85, 83>>, clock))
           @@ @]
    /\ UNCHANGED <<traits, clock, upstream, pc, args, req_params, wire, http_response, ret, log>>

\* response(resp_text, requested_pageno) called by a caller of its own: lines 250-379
CallResponse(t) ==
    /\ pc[t] = "response"
    /\ Returned(t, response(upstream[t], args[t].pageno))
    /\ pc' = [pc EXCEPT ![t] = "done"]
    /\ UNCHANGED <<traits, clock, upstream, variant, args, req_params, wire, http_response>>

\* the response of src/simplified_engines/bing.py called on the same page
CallSimplifiedResponse(t) ==
    /\ pc[t] \in {"response", "done"}
    /\ "simplified_response" \notin DOMAIN variant[t]
    /\ variant' = [variant EXCEPT ![t] =
           ("simplified_response" :> Simplified_response(upstream[t], args[t].pageno)) @@ @]
    /\ UNCHANGED <<traits, clock, upstream, pc, args, req_params, wire, http_response, ret, log>>

\* the parse_response of src/manus_work/engines/bing.py called on the same page
CallManusParseResponse(t) ==
    /\ pc[t] \in {"response", "done"}
    /\ "manus_parse_response" \notin DOMAIN variant[t]
    /\ variant' = [variant EXCEPT ![t] =
           ("manus_parse_response" :> Manus_parse_response(upstream[t], args[t].pageno)) @@ @]
    /\ UNCHANGED <<traits, clock, upstream, pc, args, req_params, wire, http_response, ret, log>>

\* the three parsers, each called once on the same page
NextParsers ==
    \E t \in Threads :
        \/ CallResponse(t)
        \/ CallSimplifiedResponse(t)
        \/ CallManusParseResponse(t)

\* the three request builders, each called once with the same arguments
NextBuilders ==
    \E t \in Threads :
        \/ CallRequest(t)
        \/ CallSimplifiedRequest(t)
        \/ CallManusRequest(t)

(***************************************************************************)
(* Inputs: the calls made and the pages served                              *)
(***************************************************************************)

MaxPage       == 4      \* page numbers requested: 1..MaxPage
MaxBlocks     == 2      \* result blocks on a served page: 0..MaxBlocks
MaxQueryLen   == 2      \* characters of a query
MaxDestLen    == 3      \* characters of a destination URL wrapped in a tracking href
MaxPayloadLen == 4      \* characters after the 'a1' prefix of an arbitrary u value

\* all strings of at most n characters drawn from chars
StrsUpTo(chars, n) == UNION {[1..k -> chars] : k \in 0..n}

Pages == 1..MaxPage

\* queries over 'a', ' ', '&', '#' and 'é'
Queries == StrsUpTo({97, 32, 38, 35, 233}, MaxQueryLen)

\* the four supported time ranges, none, and an unsupported one ('hour')
TimeRanges == {None, <<100, 97, 121>>, <<119, 101, 101, 107>>, <<109, 111, 110, 116, 104>>,
               <<121, 101, 97, 114>>, <<104, 111, 117, 114>>}

CallArgs(query, pageno, language, region, time_range) ==
    [query |-> query, pageno |-> pageno, language |-> language, region |-> region,
     time_range |-> time_range]

\* the arguments of a thread that makes no call
NoCall == CallArgs(<<>>, 1, <<>>, <<>>, None)

\* perform_search('a', pageno=p) for every page
PageCalls == {CallArgs(<<97>>, p, <<101, 110>>, <<85, 83>>, None) : p \in Pages}

\* perform_search(q, pageno=p, language='DE', region='de', time_range=tr)
RequestCalls ==
    {CallArgs(q, p, <<68, 69>>, <<100, 101>>, tr) :
        q \in Queries, p \in Pages, tr \in TimeRanges}

\* a tracking href that wraps the destination dest: 'a1' and the unpadded URL-safe
\* base64 of its UTF-8 bytes in the u parameter, between the parameters before and after
TrackingHref(before, dest, after) ==
    CkPrefix \o before \o <<117, 61, 97, 49>> \o B64EncodeNoPad(Utf8Encode(dest)) \o after

\* a tracking href whose u parameter is 'a1' and an arbitrary payload
RawTrackingHref(payload) == CkPrefix \o <<117, 61, 97, 49>> \o payload

\* destinations over 'a', '/', 'é' and the euro sign
Dests == StrsUpTo({97, 47, 233, 8364}, MaxDestLen)

\* payloads over the base64 characters 'Y', 'Q', '_', and '!', '=', 'é'
Payloads == StrsUpTo({89, 81, 95, 33, 61, 233}, MaxPayloadLen)

PlainHref ==     \* 'https://a.io/'
    <<104, 116, 116, 112, 115, 58, 47, 47, 97, 46, 105, 111, 47>>

\* the hrefs of the decoder's cases: well-formed tracking hrefs alone and among other
\* parameters ('!&&p=x&' before, '&ntb=1' after), arbitrary payloads, no u parameter
\* ('x=1', nothing, a blank 'u='), a u value shorter than the prefix, direct links, a
\* tracking href after an 'x' and one with the scheme in capitals, an anchor without href
Hrefs ==
    {TrackingHref(<<>>, d, <<>>) : d \in Dests}
    \cup {TrackingHref(<<33, 38, 38, 112, 61, 120, 38>>, d, <<38, 110, 116, 98, 61, 49>>) : d \in Dests}
    \cup {RawTrackingHref(w) : w \in Payloads}
    \cup {CkPrefix \o <<120, 61, 49>>, CkPrefix, CkPrefix \o <<117, 61>>,
          CkPrefix \o <<117, 61, 97>>}
    \cup {PlainHref, <<>>}
    \cup {<<120>> \o RawTrackingHref(<<89, 81>>),
          <<72, 84, 84, 80, 83>> \o DropFirst(RawTrackingHref(<<89, 81>>), 5),
          None}

Para(text) == [text |-> text, spans |-> <<>>]

\* a result block with its anchor and one paragraph, 'S'
TitledBlock(href, title) ==
    [anchor |-> TRUE, href |-> href, title |-> title, paras |-> <<Para(<<83>>)>>]

\* the same with the title ' T ' (the anchor's text with white space around it)
LinkBlock(href) == TitledBlock(href, <<32, 84, 32>>)

\* a result block without .//h2/a
BareBlock ==
    [anchor |-> FALSE, href |-> None, title |-> <<>>, paras |-> <<Para(<<83>>)>>]

\* a direct link titled 'D', a tracking link titled 'R', a block without anchor
Blocks == {TitledBlock(PlainHref, <<68>>),
           TitledBlock(TrackingHref(<<>>, PlainHref, <<>>), <<82>>),
           BareBlock}

\* '<s>-<e> of <t> results', 'About <t> results'
RangeBanner(s, e, t) ==
    IntStr(s) \o <<45>> \o IntStr(e) \o <<32, 111, 102, 32>> \o IntStr(t)
    \o <<32, 114, 101, 115, 117, 108, 116, 115>>
AboutBanner(t) ==
    <<65, 98, 111, 117, 116, 32>> \o IntStr(t) \o <<32, 114, 101, 115, 117, 108, 116, 115>>

\* a number written with thousands separators, as in '1,230,000'
RECURSIVE ThousandsStr(_)
ThousandsStr(n) ==
    IF n < 1000 THEN IntStr(n)
    ELSE ThousandsStr(n \div 1000)
         \o <<44, 48 + ((n % 1000) \div 100), 48 + ((n \div 10) % 10), 48 + (n % 10)>>

\* '<s>-<e> of <t> results' and '<t> results' with thousands separators
GroupedRangeBanner(s, e, t) ==
    ThousandsStr(s) \o <<45>> \o ThousandsStr(e) \o <<32, 111, 102, 32>> \o ThousandsStr(t)
    \o <<32, 114, 101, 115, 117, 108, 116, 115>>
CountBanner(t) == ThousandsStr(t) \o <<32, 114, 101, 115, 117, 108, 116, 115>>

\* the count banners: every page's range against totals below and above the offsets,
\* the two 'About' shapes, a total with thousands separators, a range and a bare count
\* with thousands separators, a banner with '-' and no number, and no banner at all
Banners ==
    {<<RangeBanner(_page_offset(k), _page_offset(k) + 9, t)>> :
        k \in 1..(MaxPage - 1), t \in {5, 15, 25, 100}}
    \cup {<<AboutBanner(15)>>,
          <<GroupedRangeBanner(1001, 1010, 5000)>>,
          <<CountBanner(1500)>>,
          <<<<65, 98, 111, 117, 116, 32, 49, 44, 50, 51, 48, 44, 48, 48, 48, 32,
              114, 101, 115, 117, 108, 116, 115>>>>,          \* 'About 1,230,000 results'
          <<<<110, 111, 45, 114, 101, 115, 117, 108, 116, 115>>>>,   \* 'no-results'
          <<>>}

\* the bodies html.fromstring rejects: the empty text, and a page with a direct link
\* under '1-10 of 100 results' that starts with <?xml version="1.0" encoding="UTF-8"?>
UnparsedDocs ==
    {[blocks |-> <<>>, sb_count |-> <<>>, fromstring |-> "ParserError"],
     [blocks |-> <<TitledBlock(PlainHref, <<68>>)>>, sb_count |-> <<RangeBanner(1, 10, 100)>>,
      fromstring |-> "ValueError"]}

Docs == {[blocks |-> bs, sb_count |-> b] :
            bs \in UNION {[1..k -> Blocks] : k \in 0..MaxBlocks}, b \in Banners}
        \cup UnparsedDocs

\* one page for the calls that vary the request: a direct link under '1-10 of 100 results'
SimpleDoc == [blocks |-> <<LinkBlock(PlainHref)>>, sb_count |-> <<RangeBanner(1, 10, 100)>>]

\* the pages for the decoder: a block with each href, before a direct link
HrefDocs == {[blocks |-> <<LinkBlock(h), LinkBlock(PlainHref)>>, sb_count |-> <<>>] :
                h \in Hrefs}

\* the child spans of a snippet paragraph: the badge ('Web', class 'algoSlug_icon') with
\* nothing or with 'Some real text' after it, and a span of another class ('B', then 'C')
MaxSpans == 2           \* child spans of a snippet paragraph: 0..MaxSpans
SnippetSpans ==
    {[class |-> IconClass, text |-> <<87, 101, 98>>, tail |-> <<>>],
     [class |-> IconClass, text |-> <<87, 101, 98>>,
      tail |-> <<83, 111, 109, 101, 32, 114, 101, 97, 108, 32, 116, 101, 120, 116>>],
     [class |-> <<120>>, text |-> <<66>>, tail |-> <<67>>]}

\* the pages for the snippet: one direct link whose paragraph starts with nothing or 'A'
\* and has up to MaxSpans child spans
SnippetDocs ==
    {[blocks |-> <<[anchor |-> TRUE, href |-> PlainHref, title |-> <<84>>,
                    paras |-> <<[text |-> x, spans |-> sp]>>]>>,
      sb_count |-> <<>>] :
        x \in {<<>>, <<65>>}, sp \in UNION {[1..k -> SnippetSpans] : k \in 0..MaxSpans}}

\* a mapping with no entry, or with the entry key: v for a v of values
Optional(key, values) == {EmptyDict} \cup {key :> v : v \in values}

\* the locale tables request may find: 'de-DE' or 'en-US' in the language table, in the
\* market table, in both or in neither, and the fallback 'en-us' or 'fr-fr'
TraitsTables ==
    {[languages |-> l, regions |-> r, all_locale |-> a] :
        l \in Optional(<<100, 101, 45, 68, 69>>, {<<100, 101>>})
              \cup Optional(<<101, 110, 45, 85, 83>>, {<<101, 110>>}),
        r \in Optional(<<100, 101, 45, 68, 69>>, {<<100, 101, 45, 100, 101>>})
              \cup Optional(<<101, 110, 45, 85, 83>>, {<<101, 110, 45, 117, 115>>}),
        a \in {<<101, 110, 45, 117, 115>>, <<102, 114, 45, 102, 114>>}}

\* the params a caller passes to request: each of pageno (2), searxng_locale ('de-DE'),
\* time_range ('day'), cookies (none, a session cookie, a stale _EDGE_CD) and headers
\* (none, a User-Agent, another header) present or not
CallerParams ==
    {pn @@ sl @@ tr @@ ck @@ hd :
        pn \in Optional("pageno", {2}),
        sl \in Optional("searxng_locale", {<<100, 101, 45, 68, 69>>}),
        tr \in Optional("time_range", {<<100, 97, 121>>}),
        ck \in Optional("cookies", {EmptyDict, "sid" :> <<120>>,
                                    "_EDGE_CD" :> <<111, 108, 100>>}),
        hd \in Optional("headers", {EmptyDict, "User-Agent" :> "curl", "X-Test" :> "1"})}

(***************************************************************************)
(* Specifications                                                           *)
(***************************************************************************)

\* the module as imported, a clock, and the threads of `active` about to run the calls
\* of `calls` against the pages of `docs`
Start(calls, docs, clocks, active) ==
    /\ traits = EngineTraits
    /\ clock \in clocks
    /\ \E a \in [active -> calls] :
           args = [t \in Threads |-> IF t \in active THEN a[t] ELSE NoCall]
    /\ \E d \in [active -> docs] :
           upstream = [t \in Threads |-> IF t \in active THEN d[t] ELSE NoDoc]
    /\ variant = [t \in Threads |-> EmptyDict]
    /\ pc = [t \in Threads |-> IF t \in active THEN "ps_params" ELSE "idle"]
    /\ req_params = [t \in Threads |-> EmptyDict]
    /\ wire = [t \in Threads |-> <<>>]
    /\ http_response = [t \in Threads |-> NoDoc]
    /\ ret = [t \in Threads |-> NotReturned]
    /\ log = [t \in Threads |-> <<>>]

\* one call, every page number against every served page
Init == Start(PageCalls, Docs, {1700000000}, {1})
Spec == Init /\ [][Next]_vars

\* one call, every query, page and time range, on two days
InitRequest == Start(RequestCalls, {SimpleDoc}, {1700000000, 1700086400}, {1})
SpecRequest == InitRequest /\ [][Next]_vars

\* one call for page 1, every href
InitDecode == Start({CallArgs(<<97>>, 1, <<101, 110>>, <<85, 83>>, None)}, HrefDocs,
                    {1700000000}, {1})
SpecDecode == InitDecode /\ [][Next]_vars

\* two concurrent calls with different (language, region), for page 1 or 3, each served
\* a page without result blocks, a page 1 of 15 results, or a page 3 of 100 results
ConcCalls ==
    {CallArgs(<<97>>, p, lr[1], lr[2], None) :
        p \in {1, 3}, lr \in {<<<<101, 110>>, <<85, 83>>>>, <<<<100, 101>>, <<68, 69>>>>}}
ConcDocs ==
    {[blocks |-> <<>>, sb_count |-> <<RangeBanner(1, 10, 15)>>],
     [blocks |-> <<LinkBlock(PlainHref)>>, sb_count |-> <<RangeBanner(1, 10, 15)>>],
     [blocks |-> <<LinkBlock(PlainHref)>>, sb_count |-> <<RangeBanner(21, 30, 100)>>]}
InitConc ==
    /\ Start(ConcCalls, ConcDocs, {1700000000}, {1, 2})
    /\ <<args[1].language, args[1].region>> # <<args[2].language, args[2].region>>
SpecConc == InitConc /\ [][Next]_vars

\* one call for page 1, every snippet paragraph
InitSnippet == Start({CallArgs(<<97>>, 1, <<101, 110>>, <<85, 83>>, None)}, SnippetDocs,
                     {1700000000}, {1})
SpecSnippet == InitSnippet /\ [][Next]_vars

\* one caller of request('a', params), every params against every state of the tables
InitBuild ==
    /\ traits \in TraitsTables
    /\ clock = 1700000000
    /\ \E params \in CallerParams :
           /\ args = [t \in Threads |->
                         IF t = 1 THEN [query |-> <<97>>, params |-> params] ELSE NoCall]
           /\ req_params = [t \in Threads |-> IF t = 1 THEN params ELSE EmptyDict]
    /\ upstream = [t \in Threads |-> NoDoc]
    /\ variant = [t \in Threads |-> EmptyDict]
    /\ pc = [t \in Threads |-> IF t = 1 THEN "request" ELSE "idle"]
    /\ wire = [t \in Threads |-> <<>>]
    /\ http_response = [t \in Threads |-> NoDoc]
    /\ ret = [t \in Threads |-> NotReturned]
    /\ log = [t \in Threads |-> <<>>]
SpecBuild == InitBuild /\ [][NextBuild]_vars

\* the params of the callers of the three builders: every query, page and time range
BuilderCalls ==
    {[query |-> q, params |-> ("pageno" :> p) @@ tr] :
        q \in Queries, p \in Pages, tr \in Optional("time_range", TimeRanges)}

\* one caller of the three request builders, at one time
InitBuilders ==
    /\ traits = EngineTraits
    /\ clock = 1700000000
    /\ \E call \in BuilderCalls :
           /\ args = [t \in Threads |-> IF t = 1 THEN call ELSE NoCall]
           /\ req_params = [t \in Threads |-> IF t = 1 THEN call.params ELSE EmptyDict]
    /\ upstream = [t \in Threads |-> NoDoc]
    /\ variant = [t \in Threads |-> EmptyDict]
    /\ pc = [t \in Threads |-> IF t = 1 THEN "request" ELSE "idle"]
    /\ wire = [t \in Threads |-> <<>>]
    /\ http_response = [t \in Threads |-> NoDoc]
    /\ ret = [t \in Threads |-> NotReturned]
    /\ log = [t \in Threads |-> <<>>]
SpecBuilders == InitBuilders /\ [][NextBuilders]_vars

\* one caller of the three parsers: every page number against every served page, and
\* page 1 against the pages for the decoder
InitParsers ==
    /\ traits = EngineTraits
    /\ clock = 1700000000
    /\ \E p \in Pages, doc \in Docs \cup HrefDocs :
           /\ doc \in HrefDocs => p = 1
           /\ args = [t \in Threads |->
                         IF t = 1 THEN CallArgs(<<97>>, p, <<101, 110>>, <<85, 83>>, None)
                         ELSE NoCall]
           /\ upstream = [t \in Threads |-> IF t = 1 THEN doc ELSE NoDoc]
    /\ variant = [t \in Threads |-> EmptyDict]
    /\ pc = [t \in Threads |-> IF t = 1 THEN "response" ELSE "idle"]
    /\ req_params = [t \in Threads |-> EmptyDict]
    /\ wire = [t \in Threads |-> <<>>]
    /\ http_response = [t \in Threads |-> NoDoc]
    /\ ret = [t \in Threads |-> NotReturned]
    /\ log = [t \in Threads |-> <<>>]
SpecParsers == InitParsers /\ [][NextParsers]_vars

(***************************************************************************)
(* Properties                                                               *)
(***************************************************************************)

\* thread t's call fetched its page and response has returned
Parsed(t) == pc[t] = "done" /\ ret[t].type = "list"

\* the page requested by thread t, and the banner numbers of the page served to it
PageOf(t)      == args[t].pageno
BannerStart(t) == StartIndex(ResultCountStr(upstream[t]))
BannerTotal(t) == TotalCount(ResultCountStr(upstream[t]))

\* the blocks of the served page that have a heading anchor, in document order
HasAnchor(b) == b.anchor
Anchored(t)  == SelectSeq(upstream[t].blocks, HasAnchor)

\* the list returned to thread t is one item per anchored block, in document order,
\* followed by one summary element
KeptAll(t) ==
    /\ Len(ret[t].list) = Len(Anchored(t)) + 1
    /\ \A i \in 1..Len(Anchored(t)) :
          /\ DOMAIN ret[t].list[i] = {"url", "title", "content"}
          /\ ret[t].list[i].title = Strip(Anchored(t)[i].title)
          /\ ret[t].list[i].url = DecodeUrl(Anchored(t)[i].href).url
    /\ DOMAIN ret[t].list[Len(ret[t].list)] = {"number_of_results"}

\* what the call of thread t logged at the given level with the given message
Logged(t, level, event) == \E i \in 1..Len(log[t]) : log[t][i] = LogEntry(level, event)

\* the served page is the page-1-in-place-of-a-page-beyond-the-results case
BeyondCase(t) ==
    /\ BannerStart(t) = 1
    /\ BannerTotal(t) > 0
    /\ (PageOf(t) - 1) * 10 + 1 > BannerTotal(t)

\* C1: a page p > 1 with at least one result block whose banner starts at 1 and whose
\* total T > 0 is below the expected offset (p-1)*10+1 is discarded wholesale: response
\* returns the empty list.
C1_BeyondLastPageDiscarded ==
    \A t \in Threads :
        (/\ Parsed(t)
         /\ PageOf(t) > 1
         /\ upstream[t].blocks # <<>>
         /\ BeyondCase(t))
        => ret[t].list = <<>>

\* page 3 served '1-10 of 15 results' above a block with an anchor: nothing is returned
C1_Witness ==
    \E t \in Threads :
        /\ Parsed(t)
        /\ PageOf(t) = 3
        /\ upstream[t].sb_count = <<RangeBanner(1, 10, 15)>>
        /\ Anchored(t) # <<>>
        /\ ret[t].list = <<>>

\* C2: for page 1 the page is never discarded: whatever the banner, response returns
\* every extracted item in order, followed by the summary element.
C2_PageOneNeverDiscarded ==
    \A t \in Threads : (Parsed(t) /\ PageOf(t) = 1) => KeptAll(t)

\* page 1 served a banner that starts at 11 with total 5: two items and the summary
C2_Witness ==
    \E t \in Threads :
        /\ Parsed(t)
        /\ PageOf(t) = 1
        /\ upstream[t].sb_count = <<RangeBanner(11, 20, 5)>>
        /\ Len(Anchored(t)) = 2
        /\ Len(ret[t].list) = 3

\* the mismatch that is not the beyond-the-results case
OtherMismatch(t) ==
    /\ PageOf(t) > 1
    /\ BannerStart(t) # (PageOf(t) - 1) * 10 + 1
    /\ ~BeyondCase(t)

Built(t)          == "url" \in DOMAIN req_params[t]
UrlParam(t, name) == ParseQsGet(UrlQuery(req_params[t]["url"]), name)
FirstParam(t)     == UrlParam(t, <<102, 105, 114, 115, 116>>)       \* 'first'
FormParam(t)      == UrlParam(t, <<70, 79, 82, 77>>)                \* 'FORM'

\* C4: the URL built for page 1 has neither 'first' nor 'FORM'; for page 2 it has
\* first = (p-1)*10+1 and FORM = 'PERE'; for p > 2 it has first = (p-1)*10+1 and
\* FORM = 'PERE' followed by the decimal p-2.
C4_PaginationParameters ==
    \A t \in Threads :
        Built(t) =>
            /\ PageOf(t) = 1 => FirstParam(t) = <<>> /\ FormParam(t) = <<>>
            /\ PageOf(t) >= 2 => FirstParam(t) = <<IntStr((PageOf(t) - 1) * 10 + 1)>>
            /\ PageOf(t) = 2 => FormParam(t) = <<<<80, 69, 82, 69>>>>
            /\ PageOf(t) > 2 => FormParam(t) = <<<<80, 69, 82, 69>> \o IntStr(PageOf(t) - 2)>>

\* the URL for page 3 of the query ' &' carries first=21 and FORM=PERE1
C4_Witness ==
    \E t \in Threads :
        /\ Built(t)
        /\ PageOf(t) = 3
        /\ args[t].query = <<32, 38>>
        /\ FirstParam(t) = <<<<50, 49>>>>
        /\ FormParam(t) = <<<<80, 69, 82, 69, 49>>>>

\* the href of the first block of the page served to thread t
FirstHref(t) == upstream[t].blocks[1].href

\* every destination d with a tracking href that wraps it, u alone or among other
\* parameters ('!&&p=x&' before, '&ntb=1' after)
WrappedDests ==
    {[href |-> TrackingHref(<<>>, d, <<>>), dest |-> d] : d \in Dests}
    \cup {[href |-> TrackingHref(<<33, 38, 38, 112, 61, 120, 38>>, d,
                                 <<38, 110, 116, 98, 61, 49>>),
           dest |-> d] : d \in Dests}

\* C5: a result whose href is the tracking prefix with u = 'a1' + the unpadded URL-safe
\* base64 of a destination d (alone or among other parameters) is emitted with url d.
C5_RedirectRoundTrip ==
    \A t \in Threads :
        Parsed(t) /\ upstream[t].blocks # <<>> =>
            \A w \in WrappedDests : FirstHref(t) = w.href => ret[t].list[1].url = w.dest

\* the destination 'a/é' (4 bytes, so 2 '=' of padding are restored) comes back
C5_Witness ==
    \E t \in Threads :
        /\ Parsed(t)
        /\ upstream[t].blocks # <<>>
        /\ FirstHref(t) = TrackingHref(<<>>, <<97, 47, 233>>, <<>>)
        /\ ret[t].list[1].url = <<97, 47, 233>>

\* the u value of a tracking href after its 2-character prefix
UValues(href) == ParseQsGet(UrlQuery(href), <<117>>)
PayloadOf(href) == DropFirst(UValues(href)[1], 2)

\* a payload that is not URL-safe base64: it holds a character that is neither of the
\* alphabet A-Z a-z 0-9 '-' '_' nor '='
IsUrlSafeB64Char(c) == c \in (65..90) \cup (97..122) \cup (48..57) \cup {45, 95}
Corrupted(payload) ==
    \E i \in 1..Len(payload) : ~IsUrlSafeB64Char(payload[i]) /\ payload[i] # 61

\* a payload that is URL-safe base64 of bytes that are not UTF-8
NotUtf8(payload) ==
    /\ ~Corrupted(payload)
    /\ UrlsafeB64Decode(PadTo4(payload)).ok
    /\ ~Utf8Decode(UrlsafeB64Decode(PadTo4(payload)).bytes).ok

\* C6 as stated: a tracking href whose u parameter is missing, or whose stripped u value
\* is not URL-safe base64, or decodes to bytes that are not UTF-8, is still emitted, with
\* the tracking href as its url.
C6_AsStated ==
    \A t \in Threads :
        (/\ Parsed(t)
         /\ upstream[t].blocks # <<>>
         /\ Truthy(FirstHref(t))
         /\ StartsWith(FirstHref(t), CkPrefix)
         /\ \/ UValues(FirstHref(t)) = <<>>
            \/ Corrupted(PayloadOf(FirstHref(t)))
            \/ NotUtf8(PayloadOf(FirstHref(t))))
        => /\ Len(ret[t].list) = Len(Anchored(t)) + 1
           /\ ret[t].list[1].url = FirstHref(t)

\* the cookies a call for (language, region) is to send
OwnCookies(language, region) ==
    [_EDGE_CD |-> <<109, 61>> \o MarketLangCode(language, region)
                  \o <<38, 117, 61>> \o MarketLangCode(language, region),
     _EDGE_S  |-> <<109, 107, 116, 61>> \o MarketLangCode(language, region)
                  \o <<38, 117, 105, 61>> \o MarketLangCode(language, region)]

\* C7 as stated: in every interleaving of two perform_search calls with different
\* (language, region), the cookies _EDGE_CD and _EDGE_S of each call's HTTP request carry
\* that call's own market and language code.
C7_AsStated ==
    \A t \in Threads :
        wire[t] # <<>> =>
            /\ wire[t][1].cookies["_EDGE_CD"] = OwnCookies(args[t].language, args[t].region)._EDGE_CD
            /\ wire[t][1].cookies["_EDGE_S"] = OwnCookies(args[t].language, args[t].region)._EDGE_S

\* the total estimate response computes for the page served to thread t: the banner's
\* total when a result block was found, 0 otherwise
TotalEstimate(t) == IF upstream[t].blocks # <<>> THEN BannerTotal(t) ELSE 0

\* the last element of the returned list is the summary carrying the total estimate
EndsWithSummary(t) ==
    /\ ret[t].list # <<>>
    /\ ret[t].list[Len(ret[t].list)] = [number_of_results |-> TotalEstimate(t)]

JudgedInvalid(t) ==
    Parsed(t) /\ Logged(t, "warning", "Bing returned page 1 instead of requested page")
ZeroResults(t) == Parsed(t) /\ upstream[t].blocks = <<>>

BadgeThenText ==
    [text  |-> <<>>,
     spans |-> <<[class |-> IconClass, text |-> <<87, 101, 98>>,
                  tail |-> <<83, 111, 109, 101, 32, 114, 101, 97, 108, 32, 116, 101, 120, 116>>]>>]

\* C11 as stated: the item of a block whose only paragraph is a badge span 'Web'
\* immediately followed by the text 'Some real text' has the content 'Some real text'.
C11_AsStated ==
    \A t \in Threads :
        (/\ Parsed(t)
         /\ Len(Anchored(t)) = 1
         /\ Anchored(t)[1].paras = <<BadgeThenText>>)
        => ret[t].list[1].content
               = <<83, 111, 109, 101, 32, 114, 101, 97, 108, 32, 116, 101, 120, 116>>

\* C12: whenever response returns a page with its summary, the items before the summary
\* are the blocks that have a heading anchor, one item per block and in document order
\* (here each block's title, the url 'https://a.io/' it links to directly or through the
\* tracking redirect, and its snippet 'S'); blocks without anchor are skipped and equal
\* items are all kept.
C12_ItemsAreAnchoredBlocksInOrder ==
    \A t \in Threads :
        Parsed(t) /\ ret[t].list # <<>> =>
            /\ Len(ret[t].list) = Len(Anchored(t)) + 1
            /\ \A i \in 1..Len(Anchored(t)) :
                   ret[t].list[i] = [url |-> PlainHref, title |-> Anchored(t)[i].title,
                                     content |-> <<83>>]

\* a page of two identical direct links: two equal items, then the summary
C12_Witness ==
    \E t \in Threads :
        /\ Parsed(t)
        /\ upstream[t].blocks = <<TitledBlock(PlainHref, <<68>>), TitledBlock(PlainHref, <<68>>)>>
        /\ Len(ret[t].list) = 3
        /\ ret[t].list[1] = [url |-> PlainHref, title |-> <<68>>, content |-> <<83>>]
        /\ ret[t].list[2] = ret[t].list[1]

\* the locale tag request looks up for thread t's params ('en-US' when they have none),
\* and the cookies that carry the given market and language codes
TagOf(t) == Get(args[t].params, "searxng_locale", <<101, 110, 45, 85, 83>>)
CookiesFor(market, language) ==
    [_EDGE_CD |-> <<109, 61>> \o market \o <<38, 117, 61>> \o language,
     _EDGE_S  |-> <<109, 107, 116, 61>> \o market \o <<38, 117, 105, 61>> \o language]

\* C13 as stated: when the locale tag is absent from the market table or from the
\* language table, request uses the fallback market traits.all_locale as both the market
\* code and the language code of the cookies.
C13_AsStated ==
    \A t \in Threads :
        (/\ pc[t] = "returned"
         /\ \/ TagOf(t) \notin DOMAIN traits.regions
            \/ TagOf(t) \notin DOMAIN traits.languages)
        => /\ req_params[t]["cookies"]["_EDGE_CD"]
                  = CookiesFor(traits.all_locale, traits.all_locale)._EDGE_CD
           /\ req_params[t]["cookies"]["_EDGE_S"]
                  = CookiesFor(traits.all_locale, traits.all_locale)._EDGE_S

\* C14: after request returns, whether or not the caller's params had cookies, the
\* cookies hold both _EDGE_CD = 'm=<market>&u=<language>' and
\* _EDGE_S = 'mkt=<market>&ui=<language>' for one market code and one language code
\* (each a value of the locale tables or the fallback).
C14_BothCookiesSet ==
    \A t \in Threads :
        pc[t] = "returned" =>
            /\ {"_EDGE_CD", "_EDGE_S"} \subseteq DOMAIN req_params[t]["cookies"]
            /\ \E market, language \in
                      {traits.all_locale}
                      \cup {traits.regions[k] : k \in DOMAIN traits.regions}
                      \cup {traits.languages[k] : k \in DOMAIN traits.languages} :
                   /\ req_params[t]["cookies"]["_EDGE_CD"]
                          = CookiesFor(market, language)._EDGE_CD
                   /\ req_params[t]["cookies"]["_EDGE_S"]
                          = CookiesFor(market, language)._EDGE_S

\* a caller that passed a stale _EDGE_CD gets both cookies for the fallback 'fr-fr'
C14_Witness ==
    \E t \in Threads :
        /\ pc[t] = "returned"
        /\ "cookies" \in DOMAIN args[t].params
        /\ "_EDGE_CD" \in DOMAIN args[t].params["cookies"]
        /\ req_params[t]["cookies"]["_EDGE_CD"]
               = <<109, 61, 102, 114, 45, 102, 114, 38, 117, 61, 102, 114, 45, 102, 114>>
        /\ req_params[t]["cookies"]["_EDGE_S"]
               = <<109, 107, 116, 61, 102, 114, 45, 102, 114, 38, 117, 105, 61,
                   102, 114, 45, 102, 114>>

\* the URL built for thread t ends with the filter fragment '&filters=ex1:"ez<code>"'
\* and has no '&filters=' before it
EndsWithOneFilter(t, code) ==
    LET url      == req_params[t]["url"]
        fragment == <<38, 102, 105, 108, 116, 101, 114, 115, 61, 101, 120, 49, 58, 34, 101, 122>>
                    \o code \o <<34>>
    IN  /\ Len(url) > Len(fragment)
        /\ SubSeq(url, Len(url) - Len(fragment) + 1, Len(url)) = fragment
        /\ ~Contains(SubSeq(url, 1, Len(url) - Len(fragment)),
                     <<38, 102, 105, 108, 116, 101, 114, 115, 61>>)

\* C15: for time_range day, week, month and year the URL ends with exactly one fragment
\* '&filters=ex1:"ez<code>"', the code being '1', '2', '3' and '5_<d-365>_<d>' with
\* d = floor(clock / 86400); for another non-empty time_range the URL has no such
\* fragment, a warning is logged and the descriptor is still returned.
C15_TimeRangeFilter ==
    \A t \in Threads :
        Built(t) =>
            /\ args[t].time_range = <<100, 97, 121>> => EndsWithOneFilter(t, <<49>>)
            /\ args[t].time_range = <<119, 101, 101, 107>> => EndsWithOneFilter(t, <<50>>)
            /\ args[t].time_range = <<109, 111, 110, 116, 104>> => EndsWithOneFilter(t, <<51>>)
            /\ args[t].time_range = <<121, 101, 97, 114>> =>
                   EndsWithOneFilter(t, <<53, 95>> \o IntStr((clock \div 86400) - 365)
                                        \o <<95>> \o IntStr(clock \div 86400))
            /\ args[t].time_range = <<104, 111, 117, 114>> =>
                   /\ ~Contains(req_params[t]["url"], <<102, 105, 108, 116, 101, 114, 115>>)
                   /\ Logged(t, "warning", "Unsupported time_range specified")
                   /\ {"url", "headers", "cookies"} \subseteq DOMAIN req_params[t]

\* the past year on day 19675 of the Unix epoch: '&filters=ex1:"ez5_19310_19675"'
C15_Witness ==
    \E t \in Threads :
        /\ Built(t)
        /\ clock = 1700000000
        /\ args[t].time_range = <<121, 101, 97, 114>>
        /\ EndsWithOneFilter(t, <<53, 95, 49, 57, 51, 49, 48, 95, 49, 57, 54, 55, 53>>)

\* C16: the headers of the descriptor request returns are the default headers when the
\* caller's params had no 'headers' entry and exactly the caller's headers, an empty
\* mapping included, when they had one.
C16_CallerHeadersKept ==
    \A t \in Threads :
        pc[t] = "returned" =>
            IF "headers" \in DOMAIN args[t].params
            THEN req_params[t]["headers"] = args[t].params["headers"]
            ELSE req_params[t]["headers"] = DefaultHeaders

\* a caller that passed an empty headers mapping gets it back empty
C16_Witness ==
    \E t \in Threads :
        /\ pc[t] = "returned"
        /\ "headers" \in DOMAIN args[t].params
        /\ args[t].params["headers"] = EmptyDict
        /\ DOMAIN req_params[t]["headers"] = {}

\* C17: a result whose href does not begin with 'https://www.bing.com/ck/a?' is emitted
\* with url equal to the href.
C17_DirectHrefUnchanged ==
    \A t \in Threads :
        (/\ Parsed(t)
         /\ upstream[t].blocks # <<>>
         /\ \/ Len(FirstHref(t)) < Len(CkPrefix)
            \/ SubSeq(FirstHref(t), 1, Len(CkPrefix)) # CkPrefix)
        => ret[t].list[1].url = FirstHref(t)

\* the href 'xhttps://www.bing.com/ck/a?u=a1YQ' holds the prefix, but not at its start
C17_Witness ==
    \E t \in Threads :
        /\ Parsed(t)
        /\ upstream[t].blocks # <<>>
        /\ FirstHref(t) = <<120>> \o CkPrefix \o <<117, 61, 97, 49, 89, 81>>
        /\ ret[t].list[1].url = FirstHref(t)

\* C18: a call whose HTTP fetch failed has sent exactly one request, has received no page
\* and parsed none (its last message is the failure), and has returned None, which
\* differs from what any call returns after a successful fetch.
C18_FetchFailureIsDistinct ==
    \A t1 \in Threads :
        Logged(t1, "error", "HTTP request failed") =>
            /\ Len(wire[t1]) = 1
            /\ http_response[t1] = NoDoc
            /\ log[t1][Len(log[t1])] = LogEntry("error", "HTTP request failed")
            /\ pc[t1] = "done"
            /\ ret[t1] = NoneValue
            /\ \A t2 \in Threads : Parsed(t2) => ret[t2] # ret[t1]

\* one call failed to fetch while the other had its page discarded as invalid
C18_Witness ==
    \E t1 \in Threads, t2 \in Threads :
        /\ Logged(t1, "error", "HTTP request failed")
        /\ ret[t1] = NoneValue
        /\ JudgedInvalid(t2)
        /\ ret[t2] = ListValue(<<>>)

\* C19 as stated: for every page body received and every requested page, response
\* returns a list and no exception leaves it.
C19_AsStated ==
    \A t \in Threads :
        (pc[t] = "done" /\ ~Logged(t, "error", "HTTP request failed"))
        => ret[t].type = "list"

\* the fields of a sent query string start with q and pq, which carry the same encoded
\* text, and that text decodes to query
CarriesQuery(fields, query) ==
    /\ Len(fields) >= 2
    /\ SubSeq(fields[1], 1, 2) = <<113, 61>>                  \* 'q='
    /\ SubSeq(fields[2], 1, 3) = <<112, 113, 61>>             \* 'pq='
    /\ DropFirst(fields[1], 2) = DropFirst(fields[2], 3)
    /\ Unquote(Replace(DropFirst(fields[1], 2), 43, 32)) = query

\* C20: for every query and page the URL built carries the parameters q and pq, with the
\* same encoded text, which decodes to the query.
C20_QueryAndPreviousQuery ==
    \A t \in Threads :
        Built(t) => CarriesQuery(Split(UrlQuery(req_params[t]["url"]), 38), args[t].query)

\* the query 'é ' on page 1: 'https://www.bing.com/search?q=%C3%A9+&pq=%C3%A9+'
C20_Witness ==
    \E t \in Threads :
        /\ Built(t)
        /\ PageOf(t) = 1
        /\ args[t].time_range = None
        /\ args[t].query = <<233, 32>>
        /\ req_params[t]["url"]
               = base_url \o <<63, 113, 61, 37, 67, 51, 37, 65, 57, 43, 38, 112, 113, 61,
                               37, 67, 51, 37, 65, 57, 43>>

\* the list returned to thread t is the summary element alone
OnlySummary(t) ==
    /\ Len(ret[t].list) = 1
    /\ DOMAIN ret[t].list[1] = {"number_of_results"}

\* C21 as stated: whenever no item is extracted (no result block, or only result blocks
\* without a heading anchor), response returns the summary element alone and never the
\* empty list of a discarded page, for every requested page and every banner.
C21_AsStated ==
    \A t \in Threads : (Parsed(t) /\ Anchored(t) = <<>>) => OnlySummary(t)

\* C22: on a page whose banner is read (a page with a result block), the banner
\* '<s>-<e> of <t> results', thousands separators or not, gives start s and total t; a
\* banner without '-' ('About <t> results', '<t> results') gives start 1 and the number
\* formed by all its digits; a banner without digit, or no banner, gives start 1 and
\* total 0; and the summary of a page that is not discarded carries that total.
C22_BannerParsing ==
    \A t \in Threads :
        (Parsed(t) /\ upstream[t].blocks # <<>>) =>
            LET b == upstream[t].sb_count
                str == Concat(b)
            IN  /\ \A k \in {1, 11, 21, 1001}, n \in {5, 15, 25, 100, 5000} :
                      b = <<GroupedRangeBanner(k, k + 9, n)>>
                      => BannerStart(t) = k /\ BannerTotal(t) = n
                /\ \A n \in {15, 1500, 1230000} :
                      b \in {<<CountBanner(n)>>, <<<<65, 98, 111, 117, 116, 32>> \o CountBanner(n)>>}
                      => BannerStart(t) = 1 /\ BannerTotal(t) = n
                /\ (~Contains(str, <<45>>) /\ DigitsOf(str) # <<>>)
                      => BannerStart(t) = 1 /\ BannerTotal(t) = IntOf(DigitsOf(str))
                /\ DigitsOf(str) = <<>> => BannerStart(t) = 1 /\ BannerTotal(t) = 0
                /\ ret[t].list # <<>>
                      => ret[t].list[Len(ret[t].list)] = [number_of_results |-> BannerTotal(t)]

\* page 1 served '1,001-1,010 of 5,000 results' above a result block: start 1001, and the
\* summary carries 5000
C22_Witness ==
    \E t \in Threads :
        /\ Parsed(t)
        /\ upstream[t].blocks # <<>>
        /\ upstream[t].sb_count = <<GroupedRangeBanner(1001, 1010, 5000)>>
        /\ Concat(upstream[t].sb_count)
               = <<49, 44, 48, 48, 49, 45, 49, 44, 48, 49, 48, 32, 111, 102, 32, 53, 44, 48,
                   48, 48, 32, 114, 101, 115, 117, 108, 116, 115>>
        /\ BannerStart(t) = 1001
        /\ ret[t].list[Len(ret[t].list)] = [number_of_results |-> 5000]

\* C23: for every page p >= 2, when the banner of the served page starts at the value
\* of 'first' that request put in the URL for page p, response keeps every extracted
\* item, appends the summary and logs neither of the two check warnings.
C23_RequestAndCheckAgree ==
    \A t \in Threads :
        (/\ Parsed(t)
         /\ PageOf(t) >= 2
         /\ FirstParam(t) = <<IntStr(BannerStart(t))>>)
        => /\ KeptAll(t)
           /\ ~Logged(t, "warning", "Page number mismatch detected")
           /\ ~Logged(t, "warning", "Bing returned page 1 instead of requested page")

\* page 3 requested with first=21 and served '21-30 of 25 results' above two anchored
\* blocks: two items and the summary, no warning
C23_Witness ==
    \E t \in Threads :
        /\ Parsed(t)
        /\ PageOf(t) = 3
        /\ FirstParam(t) = <<<<50, 49>>>>
        /\ upstream[t].sb_count = <<RangeBanner(21, 30, 25)>>
        /\ Len(Anchored(t)) = 2
        /\ Len(ret[t].list) = 3
        /\ ret[t].list[3] = [number_of_results |-> 25]
        /\ ~Logged(t, "warning", "Page number mismatch detected")

\* the entry key of the mapping after is what it was in the mapping before: the same
\* value, or absent as before
SameEntry(before, after, key) ==
    IF key \in DOMAIN before
    THEN key \in DOMAIN after /\ after[key] = before[key]
    ELSE key \notin DOMAIN after

\* C24: a call of request leaves params['pageno'], params['searxng_locale'] and
\* params['time_range'] as they were, keeps every cookie of the caller other than
\* _EDGE_CD and _EDGE_S with its value, and leaves the locale tables unchanged.
C24_InputsUntouched ==
    [][\A t \in Threads :
          (pc[t] = "request" /\ pc'[t] = "returned") =>
              /\ traits' = traits
              /\ \A key \in {"pageno", "searxng_locale", "time_range"} :
                    SameEntry(req_params[t], req_params'[t], key)
              /\ "cookies" \in DOMAIN req_params[t] =>
                    \A c \in DOMAIN req_params[t]["cookies"] \ {"_EDGE_CD", "_EDGE_S"} :
                        SameEntry(req_params[t]["cookies"], req_params'[t]["cookies"], c)]_vars

\* request has returned to a caller that passed page 2, 'de-DE', 'day' and a session
\* cookie: all four are in the params it got back, beside the two locale cookies
C24_Witness ==
    \E t \in Threads :
        /\ pc[t] = "returned"
        /\ "cookies" \in DOMAIN args[t].params
        /\ args[t].params["cookies"] = ("sid" :> <<120>>)
        /\ DOMAIN args[t].params = {"pageno", "searxng_locale", "time_range", "cookies"}
        /\ DOMAIN req_params[t]["cookies"] = {"sid", "_EDGE_CD", "_EDGE_S"}
        /\ req_params[t]["cookies"]["sid"] = <<120>>
        /\ req_params[t]["pageno"] = 2
        /\ req_params[t]["searxng_locale"] = <<100, 101, 45, 68, 69>>
        /\ req_params[t]["time_range"] = <<100, 97, 121>>
        /\ "url" \in DOMAIN req_params[t]

\* the three builders have been called with the arguments of thread t, and none raised
AllBuilt(t) ==
    /\ pc[t] = "returned"
    /\ DOMAIN variant[t] = {"simplified_request", "manus_request"}
    /\ "raised" \notin DOMAIN variant[t]["simplified_request"]

\* C25: for every query, every page p >= 1 and each of no time range, day, week, month
\* and year, at the same time, the request of src/bing_search.py, of
\* src/simplified_engines/bing.py and of src/manus_work/engines/bing.py build the same URL.
C25_BuildersAgree ==
    \A t \in Threads :
        (/\ pc[t] = "returned"
         /\ DOMAIN variant[t] = {"simplified_request", "manus_request"}
         /\ Get(args[t].params, "time_range", None)
                \in {None, <<100, 97, 121>>, <<119, 101, 101, 107>>,
                     <<109, 111, 110, 116, 104>>, <<121, 101, 97, 114>>})
        => /\ AllBuilt(t)
           /\ variant[t]["simplified_request"].params["url"] = req_params[t]["url"]
           /\ variant[t]["manus_request"].url = req_params[t]["url"]

\* page 3 of the query 'a&' over the past year: the three URLs are
\* 'https://www.bing.com/search?q=a%26&pq=a%26&first=21&FORM=PERE1&filters=ex1:"ez5_19310_19675"'
C25_Witness ==
    \E t \in Threads :
        /\ AllBuilt(t)
        /\ args[t].query = <<97, 38>>
        /\ args[t].params["pageno"] = 3
        /\ Get(args[t].params, "time_range", None) = <<121, 101, 97, 114>>
        /\ variant[t]["manus_request"].url = variant[t]["simplified_request"].params["url"]
        /\ variant[t]["manus_request"].url
               = base_url \o <<63, 113, 61, 97, 37, 50, 54, 38, 112, 113, 61, 97, 37, 50, 54,
                               38, 102, 105, 114, 115, 116, 61, 50, 49, 38, 70, 79, 82, 77,
                               61, 80, 69, 82, 69, 49, 38, 102, 105, 108, 116, 101, 114, 115,
                               61, 101, 120, 49, 58, 34, 101, 122, 53, 95, 49, 57, 51, 49, 48,
                               95, 49, 57, 54, 55, 53, 34>>

\* the three parsers have been called on the page served to thread t
AllParsed(t) ==
    /\ pc[t] = "done"
    /\ DOMAIN variant[t] = {"simplified_response", "manus_parse_response"}

\* the parser of src/simplified_engines/bing.py extracts from the page served to thread
\* t the items response extracts, and there is at least one
SameItems(t) ==
    /\ "fromstring" \notin DOMAIN upstream[t]
    /\ ExtractItems(upstream[t].blocks).results # <<>>
    /\ Simplified_ExtractItems(upstream[t].blocks)
           = [raised |-> "", results |-> ExtractItems(upstream[t].blocks).results]

\* C26 as stated: for every requested page, every banner and every non-empty list of
\* extracted items, response of src/simplified_engines/bing.py returns what response of
\* src/bing_search.py returns (the empty list exactly when it does, otherwise the same
\* items and summary) and does not raise where it returns.
C26_AsStated ==
    \A t \in Threads :
        (AllParsed(t) /\ SameItems(t) /\ ret[t].type = "list")
        => variant[t]["simplified_response"] = ret[t]

\* the href of an anchored block is a tracking href that cannot be decoded: no u
\* parameter, or a payload whose base64 or UTF-8 decoding fails
Undecodable(href) ==
    /\ Truthy(href)
    /\ StartsWith(href, CkPrefix)
    /\ \/ UValues(href) = <<>>
       \/ ~DecodePayload(UrlsafeB64Decode(PadTo4(PayloadOf(href)))).ok

\* C27 as stated: parse_response of src/manus_work/engines/bing.py returns a result
\* whose tracking href cannot be decoded with the tracking href as its url, and the other
\* results of the page unaffected.
C27_AsStated ==
    \A t \in Threads :
        (/\ AllParsed(t)
         /\ "fromstring" \notin DOMAIN upstream[t]
         /\ Len(upstream[t].blocks) = 2
         /\ Len(Anchored(t)) = 2
         /\ Undecodable(upstream[t].blocks[1].href)
         /\ upstream[t].blocks[2].href = PlainHref)
        => /\ variant[t]["manus_parse_response"].type = "list"
           /\ Len(variant[t]["manus_parse_response"].list) = 2
           /\ variant[t]["manus_parse_response"].list[1].url = upstream[t].blocks[1].href
           /\ variant[t]["manus_parse_response"].list[2].url = PlainHref

\* C28 as stated: a tracking href that carries a non-empty u parameter is emitted with
\* the tracking href itself or with a non-empty decoded string as its url; a u value of
\* the prefix alone, or a payload without any base64 character, gives no empty url.
C28_AsStated ==
    \A t \in Threads :
        (/\ Parsed(t)
         /\ upstream[t].blocks # <<>>
         /\ Truthy(FirstHref(t))
         /\ StartsWith(FirstHref(t), CkPrefix)
         /\ UValues(FirstHref(t)) # <<>>)
        => \/ ret[t].list[1].url = FirstHref(t)
           \/ ret[t].list[1].url \notin {<<>>, None}

\* C29 as stated: every item response emits has a string as its url; a heading anchor
\* without href attribute gives no item whose url is None.
C29_AsStated ==
    \A t \in Threads :
        Parsed(t) =>
            \A i \in 1..Len(ret[t].list) :
                "url" \in DOMAIN ret[t].list[i] => ret[t].list[i].url # None

\* e is a result item: exactly the fields url, title and content
IsItem(e) == DOMAIN e = {"url", "title", "content"}

\* e is a summary element: exactly the field number_of_results, a number >= 0
IsSummary(e) == DOMAIN e = {"number_of_results"} /\ e.number_of_results \in Nat

\* C30: what response returns is the empty list, or a list whose last element is the
\* summary {number_of_results: n} with n >= 0 and whose other elements are all items
\* with exactly the fields url, title and content.
C30_ReturnShape ==
    \A t \in Threads :
        Parsed(t) =>
            \/ ret[t].list = <<>>
            \/ /\ IsSummary(ret[t].list[Len(ret[t].list)])
               /\ \A i \in 1..(Len(ret[t].list) - 1) : IsItem(ret[t].list[i])

\* page 1 of two anchored blocks under '1-10 of 100 results': two items, then the
\* summary of 100
C30_Witness ==
    \E t \in Threads :
        /\ Parsed(t)
        /\ PageOf(t) = 1
        /\ upstream[t].sb_count = <<RangeBanner(1, 10, 100)>>
        /\ Len(Anchored(t)) = 2
        /\ Len(ret[t].list) = 3
        /\ IsItem(ret[t].list[1]) /\ IsItem(ret[t].list[2])
        /\ ret[t].list[3] = [number_of_results |-> 100]

====
